---- MODULE Spec2Model ----
(***************************************************************************)
(* Model of the distributed Sobel engine of "phase II/src/sobel_mpi.cpp":  *)
(* the geometry resolver (setup_domain), the Distributor (scatter_image),  *)
(* the Boundary Exchanger (exchange_halo_blocking), the Stencil Kernel     *)
(* (compute_sobel_local), the Collector (gather_image) and the run loop of *)
(* main.  One process per MPI rank; point-to-point operations are matched  *)
(* under rendezvous semantics (a send completes only together with the     *)
(* matching receive of its peer).                                          *)
(***************************************************************************)
EXTENDS Integers, Sequences, FiniteSets, TLC

\* ---------------------------------------------------------------- bounds
MaxP == 6          \* largest world size of a full run
MaxN == 4          \* largest image size of a full run
MaxRuns == 2       \* largest iteration count of a full run
MaxGeomP == 12     \* largest world size handed to setup_domain alone
MaxGeomN == 10     \* largest image size handed to setup_domain alone
MaxCrashP == 4     \* largest world size of a run in which ranks may stop
MaxCrashN == 3     \* largest image size of a run in which ranks may stop
MaxStopped == 1    \* largest number of ranks that stop in one run
MaxLatP == 3       \* largest world size of the latency benchmark
MaxOmpN == 4       \* largest image side of the shared-memory program
MaxOmpT == 3       \* largest thread count of the shared-memory program
MaxCliN == 4       \* largest N argument of the shared-memory program
MaxCliThreads == 2 \* largest threads argument of the shared-memory program
MaxCliRuns == 2    \* largest num_runs argument of the shared-memory program
MaxWeakTime == 3   \* largest average time (ms) a benchmark run reports
MaxReplicas == 2   \* largest number of service replicas started

VARIABLES
    world_size,    \* MPI_Comm_size
    N,             \* image size (argv[1])
    num_runs,      \* iteration count (argv[2])
    kernel,        \* "sobel": compute_sobel_local; "identity": the round-trip test kernel
    orig_img,      \* the image rank 0 generated before the first iteration
    config,        \* config[r]: the DomainConfig of rank r
    prog,          \* prog[r]: the operations of one iteration of rank r, in program order
    global_img,    \* rank 0's global_img buffer
    local_img,     \* local_img[r]: rank r's padded tile
    output_img,    \* output_img[r]: rank r's output tile
    pc,            \* pc[r]: index of rank r's current operation in its iteration
    run,           \* run[r]: rank r's loop counter
    half,          \* half[r]: the halves ("s", "r") of the current operation already completed
    finalized,     \* ranks that have called MPI_Finalize
    stopped,       \* ranks that have stopped (crashed or hung): they take no further step
    report,        \* the result lines rank 0 has written to standard output
    lat,           \* the ranks of the latency benchmark (latency specification)
    omp,           \* one call of run_sobel_omp in progress (OpenMP specification)
    script,        \* the shell script being run (benchmark and failure-injection scripts)
    dom            \* one call of setup_domain in progress (geometry specifications)

\* what a run never changes after start-up
params == <<world_size, N, num_runs, kernel, orig_img, config, prog, dom, lat, omp, script>>

\* what a call of setup_domain alone never touches
runstate == <<num_runs, kernel, orig_img, config, prog, global_img, local_img,
              output_img, pc, run, half, finalized, stopped, report>>

vars == <<params, global_img, local_img, output_img, pc, run, half, finalized,
          stopped, report>>

Ranks == 0 .. (world_size - 1)

\* MPI_PROC_NULL
MPI_PROC_NULL == -1

\* ------------------------------------------------------------ arithmetic
RECURSIVE SqrtSearch(_, _, _)
SqrtSearch(x, lo, hi) ==
    IF lo = hi THEN lo
    ELSE LET mid == (lo + hi + 1) \div 2
         IN  IF mid * mid <= x THEN SqrtSearch(x, mid, hi)
                               ELSE SqrtSearch(x, lo, mid - 1)

\* (int)sqrt(x) for a non-negative 32-bit int x: the double square root
\* truncated; it never exceeds 46340
ISqrt(x) == SqrtSearch(x, 0, IF x < 46340 THEN x ELSE 46340)

\* mutant: the value is passed on as it is
clampNothing(v) == v

clamp255(v) == IF v < 0 THEN 0 ELSE (IF v > 255 THEN 255 ELSE v)

\* ---------------------------------------------------------- setup_domain
\* mutant: the search is skipped, floor(sqrt(p)) is taken as it is
SearchNeverContinues(ws, grid_dim) == FALSE

\* loop condition of the divisor search
SearchContinues(ws, grid_dim) == ws % grid_dim # 0

RECURSIVE GridDimFrom(_, _)
GridDimFrom(ws, grid_dim) ==
    IF SearchContinues(ws, grid_dim) THEN GridDimFrom(ws, grid_dim - 1)
                                     ELSE grid_dim

GridDim(ws) == GridDimFrom(ws, ISqrt(ws))

\* mutant: the first grid row/column takes the rest
LocalExtentFirstTakesRest(image_size, grid_n, my_idx) ==
    LET base == image_size \div grid_n
    IN  IF my_idx = 0 THEN image_size - (grid_n - 1) * base
                      ELSE base

\* mutant: the remainder is dropped
LocalExtentEven(image_size, grid_n, my_idx) == image_size \div grid_n

\* local_rows / local_cols: the even share, the last grid row/column takes the rest
LocalExtent(image_size, grid_n, my_idx) ==
    LET base == image_size \div grid_n
    IN  IF my_idx = grid_n - 1 THEN image_size - (grid_n - 1) * base
                               ELSE base

\* mutant: the divisor found is taken as the number of grid columns
DomainFromGridTransposed(image_size, rank, ws, grid_dim) ==
    LET grid_rows == ws \div grid_dim
        grid_cols == grid_dim
        my_row    == rank \div grid_cols
        my_col    == rank % grid_cols
    IN  [rank       |-> rank,
         world_size |-> ws,
         image_size |-> image_size,
         halo_size  |-> 1,
         grid_rows  |-> grid_rows,
         grid_cols  |-> grid_cols,
         my_row     |-> my_row,
         my_col     |-> my_col,
         local_rows |-> LocalExtent(image_size, grid_rows, my_row),
         local_cols |-> LocalExtent(image_size, grid_cols, my_col)]

\* the DomainConfig built once the divisor search has stopped at grid_dim
DomainFromGrid(image_size, rank, ws, grid_dim) ==
    LET grid_rows == grid_dim
        grid_cols == ws \div grid_dim
        my_row    == rank \div grid_cols
        my_col    == rank % grid_cols
    IN  [rank       |-> rank,
         world_size |-> ws,
         image_size |-> image_size,
         halo_size  |-> 1,
         grid_rows  |-> grid_rows,
         grid_cols  |-> grid_cols,
         my_row     |-> my_row,
         my_col     |-> my_col,
         local_rows |-> LocalExtent(image_size, grid_rows, my_row),
         local_cols |-> LocalExtent(image_size, grid_cols, my_col)]

setup_domain(image_size, rank, ws) ==
    DomainFromGrid(image_size, rank, ws, GridDim(ws))

\* ------------------------------------------------------------ operations
\* One blocking operation of a rank.  kind: "send", "recv", "sendrecv",
\* "barrier", or a local step ("scatter_copy", "compute", "gather_copy").
NoPart == [peer |-> MPI_PROC_NULL, tag |-> -1, buf |-> "none", off |-> 0, cnt |-> 0]

Part(peer, tag, buf, off, cnt) ==
    [peer |-> peer, tag |-> tag, buf |-> buf, off |-> off, cnt |-> cnt]

Op(kind, stage, snd, rcv) == [kind |-> kind, stage |-> stage, snd |-> snd, rcv |-> rcv]

HasSend(op) == op.kind \in {"send", "sendrecv"}
HasRecv(op) == op.kind \in {"recv", "sendrecv"}

\* ---------------------------------------------------------- scatter_image
\* mutant: the last grid column gets the even share only
ScatterRegionEvenCols(cfg, n, r) ==
    LET dst_row   == r \div cfg.grid_cols
        dst_col   == r % cfg.grid_cols
        start_row == dst_row * (n \div cfg.grid_rows)
        start_col == dst_col * (n \div cfg.grid_cols)
    IN  [start_row |-> start_row,
         start_col |-> start_col,
         rows |-> IF dst_row = cfg.grid_rows - 1 THEN n - start_row
                                                 ELSE n \div cfg.grid_rows,
         cols |-> n \div cfg.grid_cols]

\* the sub-region of GlobalImage rank 0 computes for rank r
ScatterRegion(cfg, n, r) ==
    LET dst_row   == r \div cfg.grid_cols
        dst_col   == r % cfg.grid_cols
        start_row == dst_row * (n \div cfg.grid_rows)
        start_col == dst_col * (n \div cfg.grid_cols)
    IN  [start_row |-> start_row,
         start_col |-> start_col,
         rows |-> IF dst_row = cfg.grid_rows - 1 THEN n - start_row
                                                 ELSE n \div cfg.grid_rows,
         cols |-> IF dst_col = cfg.grid_cols - 1 THEN n - start_col
                                                 ELSE n \div cfg.grid_cols]

\* rank 0 sends row i of rank r's region
ScatterSendOp(cfg, n, r, i) ==
    LET reg == ScatterRegion(cfg, n, r)
    IN  Op("send", "scatter",
           Part(r, 0, "global", (reg.start_row + i) * n + reg.start_col, reg.cols),
           NoPart)

\* mutant: the received row is stored from the west border cell on
ScatterRecvOpNoColHalo(cfg, i) ==
    LET h == cfg.halo_size
    IN  Op("recv", "scatter", NoPart,
           Part(0, 0, "local", (i + h) * (cfg.local_cols + 2 * h), cfg.local_cols))

\* a rank other than 0 receives its row i into the interior of its tile
ScatterRecvOp(cfg, i) ==
    LET h == cfg.halo_size
    IN  Op("recv", "scatter", NoPart,
           Part(0, 0, "local", (i + h) * (cfg.local_cols + 2 * h) + h, cfg.local_cols))

RECURSIVE ScatterLoop(_, _, _)
ScatterLoop(cfg, n, r) ==
    IF r >= cfg.world_size THEN << >>
    ELSE (IF r = 0
          THEN << Op("scatter_copy", "scatter", NoPart, NoPart) >>
          ELSE [k \in 1 .. ScatterRegion(cfg, n, r).rows |->
                    ScatterSendOp(cfg, n, r, k - 1)])
         \o ScatterLoop(cfg, n, r + 1)

\* mutant: scatter_image returns without the barrier
ScatterNoBarrier == << >>

\* MPI_Barrier at the end of scatter_image
ScatterBarrier == << Op("barrier", "scatter_barrier", NoPart, NoPart) >>

ScatterOps(cfg, n) ==
    (IF cfg.rank = 0
     THEN ScatterLoop(cfg, n, 0)
     ELSE [k \in 1 .. cfg.local_rows |-> ScatterRecvOp(cfg, k - 1)])
    \o ScatterBarrier

\* the local copy of rank 0's own block into the interior of its tile
ScatterCopy(tile, gimg, cfg, n) ==
    LET reg   == ScatterRegion(cfg, n, 0)
        h     == cfg.halo_size
        pitch == reg.cols + 2 * h
    IN  [x \in DOMAIN tile |->
            LET i == (x \div pitch) - h
                j == (x % pitch) - h
            IN  IF i >= 0 /\ i < reg.rows /\ j >= 0 /\ j < reg.cols
                THEN gimg[(reg.start_row + i) * n + reg.start_col + j]
                ELSE tile[x]]

\* ------------------------------------------------- exchange_halo_blocking
\* mutant: the east neighbor is taken without looking at the grid edge
EastNoEdgeCheck(cfg) == cfg.rank + 1

North(cfg) == IF cfg.my_row > 0 THEN cfg.rank - cfg.grid_cols ELSE MPI_PROC_NULL
South(cfg) == IF cfg.my_row < cfg.grid_rows - 1 THEN cfg.rank + cfg.grid_cols
                                                ELSE MPI_PROC_NULL
West(cfg)  == IF cfg.my_col > 0 THEN cfg.rank - 1 ELSE MPI_PROC_NULL
East(cfg)  == IF cfg.my_col < cfg.grid_cols - 1 THEN cfg.rank + 1 ELSE MPI_PROC_NULL

Pitch(cfg) == cfg.local_cols + 2 * cfg.halo_size

\* mutant: the north border row is received from the corner cell on
NorthOpRecvFromCorner(cfg) ==
    LET h == cfg.halo_size
    IN  Op("sendrecv", "north",
           Part(North(cfg), 0, "local", h * Pitch(cfg) + h, cfg.local_cols),
           Part(North(cfg), 1, "local", 0 * Pitch(cfg), cfg.local_cols))

NorthOp(cfg) ==
    LET h == cfg.halo_size
    IN  Op("sendrecv", "north",
           Part(North(cfg), 0, "local", h * Pitch(cfg) + h, cfg.local_cols),
           Part(North(cfg), 1, "local", 0 * Pitch(cfg) + h, cfg.local_cols))

\* mutant: the south exchange uses the tags of the north exchange
SouthOpNorthTags(cfg) ==
    LET h == cfg.halo_size
    IN  Op("sendrecv", "south",
           Part(South(cfg), 0, "local",
                (cfg.local_rows - 1 + h) * Pitch(cfg) + h, cfg.local_cols),
           Part(South(cfg), 1, "local",
                (cfg.local_rows + h) * Pitch(cfg) + h, cfg.local_cols))

SouthOp(cfg) ==
    LET h == cfg.halo_size
    IN  Op("sendrecv", "south",
           Part(South(cfg), 1, "local",
                (cfg.local_rows - 1 + h) * Pitch(cfg) + h, cfg.local_cols),
           Part(South(cfg), 0, "local",
                (cfg.local_rows + h) * Pitch(cfg) + h, cfg.local_cols))

\* mutant: the west exchange sends the border cell instead of the first interior cell
WestOpSendsBorder(cfg, i) ==
    LET h   == cfg.halo_size
        idx == (i + h) * Pitch(cfg)
    IN  Op("sendrecv", "west",
           Part(West(cfg), 2 + i, "local", idx, 1),
           Part(West(cfg), 2 + cfg.local_rows + i, "local", idx, 1))

WestOp(cfg, i) ==
    LET h   == cfg.halo_size
        idx == (i + h) * Pitch(cfg)
    IN  Op("sendrecv", "west",
           Part(West(cfg), 2 + i, "local", idx + h, 1),
           Part(West(cfg), 2 + cfg.local_rows + i, "local", idx, 1))

\* mutant: the east exchange receives into the last interior cell
EastOpRecvInterior(cfg, i) ==
    LET h   == cfg.halo_size
        idx == (i + h) * Pitch(cfg)
    IN  Op("sendrecv", "east",
           Part(East(cfg), 2 + cfg.local_rows + i, "local",
                idx + cfg.local_cols + h - 1, 1),
           Part(East(cfg), 2 + i, "local", idx + cfg.local_cols + h - 1, 1))

EastOp(cfg, i) ==
    LET h   == cfg.halo_size
        idx == (i + h) * Pitch(cfg)
    IN  Op("sendrecv", "east",
           Part(East(cfg), 2 + cfg.local_rows + i, "local",
                idx + cfg.local_cols + h - 1, 1),
           Part(East(cfg), 2 + i, "local", idx + cfg.local_cols + h, 1))

\* mutant: the exchange with the north neighbor is left out
ExchangeOpsNoNorth(cfg) ==
    (IF South(cfg) # MPI_PROC_NULL THEN << SouthOp(cfg) >> ELSE << >>)
    \o (IF West(cfg) # MPI_PROC_NULL
        THEN [k \in 1 .. cfg.local_rows |-> WestOp(cfg, k - 1)] ELSE << >>)
    \o (IF East(cfg) # MPI_PROC_NULL
        THEN [k \in 1 .. cfg.local_rows |-> EastOp(cfg, k - 1)] ELSE << >>)

\* mutant: the column-axis exchanges are issued before the row-axis ones
ExchangeOpsColumnsFirst(cfg) ==
    (IF West(cfg) # MPI_PROC_NULL
     THEN [k \in 1 .. cfg.local_rows |-> WestOp(cfg, k - 1)] ELSE << >>)
    \o (IF East(cfg) # MPI_PROC_NULL
        THEN [k \in 1 .. cfg.local_rows |-> EastOp(cfg, k - 1)] ELSE << >>)
    \o (IF North(cfg) # MPI_PROC_NULL THEN << NorthOp(cfg) >> ELSE << >>)
    \o (IF South(cfg) # MPI_PROC_NULL THEN << SouthOp(cfg) >> ELSE << >>)

ExchangeOps(cfg) ==
    (IF North(cfg) # MPI_PROC_NULL THEN << NorthOp(cfg) >> ELSE << >>)
    \o (IF South(cfg) # MPI_PROC_NULL THEN << SouthOp(cfg) >> ELSE << >>)
    \o (IF West(cfg) # MPI_PROC_NULL
        THEN [k \in 1 .. cfg.local_rows |-> WestOp(cfg, k - 1)] ELSE << >>)
    \o (IF East(cfg) # MPI_PROC_NULL
        THEN [k \in 1 .. cfg.local_rows |-> EastOp(cfg, k - 1)] ELSE << >>)

\* ---------------------------------------------------- compute_sobel_local
\* mutant: the middle row is not weighted twice
gxUnweighted == << <<-1, 0, 1>>, <<-1, 0, 1>>, <<-1, 0, 1>> >>

gx == << <<-1, 0, 1>>, <<-2, 0, 2>>, <<-1, 0, 1>> >>

\* mutant: the vertical kernel weights the right column instead of the middle one
gyRightWeighted == << <<-1, -1, -2>>, <<0, 0, 0>>, <<1, 1, 2>> >>

gy == << <<-1, -2, -1>>, <<0, 0, 0>>, <<1, 2, 1>> >>

\* the part of one gradient sum contributed by the tile row i + di
KernelRow(k, tile, pitch, i, j, di) ==
      k[di + 2][1] * tile[(i + di) * pitch + (j - 1)]
    + k[di + 2][2] * tile[(i + di) * pitch + j]
    + k[di + 2][3] * tile[(i + di) * pitch + (j + 1)]

Gradient(k, tile, pitch, i, j) ==
      KernelRow(k, tile, pitch, i, j, -1)
    + KernelRow(k, tile, pitch, i, j, 0)
    + KernelRow(k, tile, pitch, i, j, 1)

\* pixels are in 0..255, so |gradient| <= 1020 and the int products do not overflow
compute_sobel_local(tile, cfg) ==
    LET h     == cfg.halo_size
        rows  == cfg.local_rows
        cols  == cfg.local_cols
        pitch == cols + 2 * h
    IN  [x \in 0 .. (rows * cols - 1) |->
            LET i      == (x \div cols) + h
                j      == (x % cols) + h
                gx_val == Gradient(gx, tile, pitch, i, j)
                gy_val == Gradient(gy, tile, pitch, i, j)
                mag    == ISqrt(gx_val * gx_val + gy_val * gy_val)
            IN  clamp255(mag)]

\* the identity kernel of the round-trip test: output cell = tile interior cell
IdentityKernel(tile, cfg) ==
    LET h     == cfg.halo_size
        cols  == cfg.local_cols
        pitch == cols + 2 * h
    IN  [x \in 0 .. (cfg.local_rows * cols - 1) |->
            tile[((x \div cols) + h) * pitch + (x % cols) + h]]

\* ----------------------------------------------------------- gather_image
GatherRegion(cfg, n, r) ==
    LET dst_row   == r \div cfg.grid_cols
        dst_col   == r % cfg.grid_cols
        start_row == dst_row * (n \div cfg.grid_rows)
        start_col == dst_col * (n \div cfg.grid_cols)
    IN  [start_row |-> start_row,
         start_col |-> start_col,
         rows |-> IF dst_row = cfg.grid_rows - 1 THEN n - start_row
                                                 ELSE n \div cfg.grid_rows,
         cols |-> IF dst_col = cfg.grid_cols - 1 THEN n - start_col
                                                 ELSE n \div cfg.grid_cols]

\* mutant: the received row is stored at the start of the image row
GatherRecvOpNoColOffset(cfg, n, r, i) ==
    LET reg == GatherRegion(cfg, n, r)
    IN  Op("recv", "gather", NoPart,
           Part(r, 0, "global", (reg.start_row + i) * n, reg.cols))

\* rank 0 receives row i of rank r's output into GlobalImage
GatherRecvOp(cfg, n, r, i) ==
    LET reg == GatherRegion(cfg, n, r)
    IN  Op("recv", "gather", NoPart,
           Part(r, 0, "global", (reg.start_row + i) * n + reg.start_col, reg.cols))

\* mutant: the output rows are sent with a tag rank 0 does not receive on
GatherSendOpTag1(cfg, i) ==
    Op("send", "gather",
       Part(0, 1, "output", i * cfg.local_cols, cfg.local_cols), NoPart)

\* mutant: the rows are sent out of the rank's global_img buffer
GatherSendOpFromGlobal(cfg, i) ==
    Op("send", "gather",
       Part(0, 0, "global", i * cfg.local_cols, cfg.local_cols), NoPart)

\* a rank other than 0 sends row i of its output tile
GatherSendOp(cfg, i) ==
    Op("send", "gather",
       Part(0, 0, "output", i * cfg.local_cols, cfg.local_cols), NoPart)

RECURSIVE GatherLoop(_, _, _)
GatherLoop(cfg, n, r) ==
    IF r >= cfg.world_size THEN << >>
    ELSE (IF r = 0
          THEN << Op("gather_copy", "gather", NoPart, NoPart) >>
          ELSE [k \in 1 .. GatherRegion(cfg, n, r).rows |->
                    GatherRecvOp(cfg, n, r, k - 1)])
         \o GatherLoop(cfg, n, r + 1)

\* mutant: gather_image returns without the barrier
GatherNoBarrier == << >>

\* MPI_Barrier at the end of gather_image
GatherBarrier == << Op("barrier", "gather_barrier", NoPart, NoPart) >>

GatherOps(cfg, n) ==
    (IF cfg.rank = 0
     THEN GatherLoop(cfg, n, 0)
     ELSE [k \in 1 .. cfg.local_rows |-> GatherSendOp(cfg, k - 1)])
    \o GatherBarrier

\* mutant: rank 0 does not store its own output tile
GatherCopySkipped(gimg, out, cfg, n) == gimg

\* rank 0 copies its own output tile into its region of GlobalImage
GatherCopy(gimg, out, cfg, n) ==
    LET reg == GatherRegion(cfg, n, 0)
    IN  [x \in DOMAIN gimg |->
            LET i == (x \div n) - reg.start_row
                j == (x % n) - reg.start_col
            IN  IF i >= 0 /\ i < reg.rows /\ j >= 0 /\ j < reg.cols
                THEN out[i * reg.cols + j]
                ELSE gimg[x]]

\* ------------------------------------------------------------------- main
\* mutant: the kernel runs before the boundary exchange
IterationComputeFirst(cfg, n) ==
    ScatterOps(cfg, n)
    \o << Op("compute", "compute", NoPart, NoPart) >>
    \o ExchangeOps(cfg)
    \o GatherOps(cfg, n)

\* the operations of one iteration of the run loop, in program order
Iteration(cfg, n) ==
    ScatterOps(cfg, n)
    \o ExchangeOps(cfg)
    \o << Op("compute", "compute", NoPart, NoPart) >>
    \o GatherOps(cfg, n)

\* global_img[i] = i % 256
CodeImage(n) == [x \in 0 .. (n * n - 1) |-> x % 256]

\* the test image pixel[i][j] = (i*31 + j*17) mod 256
TestImage(n) == [x \in 0 .. (n * n - 1) |-> ((x \div n) * 31 + (x % n) * 17) % 256]

Images(n) == {CodeImage(n), TestImage(n)}

\* vector<int> local_img((local_rows + 2h) * (local_cols + 2h), 0)
ZeroTile(cfg) ==
    [x \in 0 .. ((cfg.local_rows + 2 * cfg.halo_size)
                 * (cfg.local_cols + 2 * cfg.halo_size) - 1) |-> 0]

\* vector<int> output_img(local_rows * local_cols, 0)
ZeroOutput(cfg) == [x \in 0 .. (cfg.local_rows * cfg.local_cols - 1) |-> 0]

Running(w) == run[w] < num_runs
CurOp(w) == prog[w][pc[w]]

\* the stage a rank is in
Stage(w) ==
    IF w \in finalized THEN "finalized"
    ELSE IF ~Running(w) THEN "report"
    ELSE CurOp(w).stage

IdleDom == [pc |-> "idle", rank |-> 0, grid_dim |-> 1,
            config |-> DomainFromGrid(3, 0, 1, 1)]

InitBounded(ker, maxp, maxn) ==
    /\ world_size \in 1 .. maxp
    /\ N \in 3 .. maxn
    /\ num_runs \in 1 .. MaxRuns
    /\ kernel = ker
    /\ orig_img \in Images(N)
    /\ global_img = orig_img
    /\ config = [r \in Ranks |-> setup_domain(N, r, world_size)]
    /\ prog = [r \in Ranks |-> Iteration(config[r], N)]
    /\ local_img = [r \in Ranks |-> ZeroTile(config[r])]
    /\ output_img = [r \in Ranks |-> ZeroOutput(config[r])]
    /\ pc = [r \in Ranks |-> 1]
    /\ run = [r \in Ranks |-> 0]
    /\ half = [r \in Ranks |-> {}]
    /\ finalized = {}
    /\ stopped = {}
    /\ report = << >>
    /\ dom = IdleDom
    /\ lat = << >>
    /\ omp = << >>
    /\ script = << >>

InitWith(ker) == InitBounded(ker, MaxP, MaxN)

Init == InitWith("sobel")

\* position of rank w after its current operation
NextPc(w) == IF pc[w] < Len(prog[w]) THEN pc[w] + 1 ELSE 1
NextRun(w) == IF pc[w] < Len(prog[w]) THEN run[w] ELSE run[w] + 1

\* rank w's current operation with the halves hs done: complete?
Complete(op, hs) ==
    /\ HasSend(op) => "s" \in hs
    /\ HasRecv(op) => "r" \in hs

ReadBuf(w, part) ==
    LET b == IF part.buf = "global" THEN global_img
             ELSE IF part.buf = "output" THEN output_img[w]
             ELSE local_img[w]
    IN  [k \in 0 .. (part.cnt - 1) |-> b[part.off + k]]

WriteBuf(b, off, data) ==
    [x \in DOMAIN b |->
        IF x >= off /\ (x - off) \in DOMAIN data THEN data[x - off] ELSE b[x]]

\* rank w is still executing
Alive(w) == w \notin stopped

\* A message from s can be delivered to d: s is blocked in an operation whose
\* send half is addressed to d, d is blocked in an operation whose receive
\* half names s and the same tag.
Matches(s, d) ==
    /\ s # d
    /\ Alive(s) /\ Alive(d)
    /\ Running(s) /\ Running(d)
    /\ HasSend(CurOp(s)) /\ "s" \notin half[s] /\ CurOp(s).snd.peer = d
    /\ HasRecv(CurOp(d)) /\ "r" \notin half[d] /\ CurOp(d).rcv.peer = s
    /\ CurOp(d).rcv.tag = CurOp(s).snd.tag

\* the rendezvous: the data is copied and each completed operation returns
Transfer(s, d) ==
    /\ Matches(s, d)
    /\ LET so    == CurOp(s)
           ro    == CurOp(d)
           data  == ReadBuf(s, so.snd)
           hs    == half[s] \cup {"s"}
           hd    == half[d] \cup {"r"}
           sdone == Complete(so, hs)
           ddone == Complete(ro, hd)
       IN  /\ IF ro.rcv.buf = "global"
              THEN /\ global_img' = WriteBuf(global_img, ro.rcv.off, data)
                   /\ local_img' = local_img
              ELSE /\ local_img' = [local_img EXCEPT
                                       ![d] = WriteBuf(@, ro.rcv.off, data)]
                   /\ global_img' = global_img
           /\ half' = [half EXCEPT ![s] = IF sdone THEN {} ELSE hs,
                                   ![d] = IF ddone THEN {} ELSE hd]
           /\ pc' = [pc EXCEPT ![s] = IF sdone THEN NextPc(s) ELSE @,
                               ![d] = IF ddone THEN NextPc(d) ELSE @]
           /\ run' = [run EXCEPT ![s] = IF sdone THEN NextRun(s) ELSE @,
                                 ![d] = IF ddone THEN NextRun(d) ELSE @]
    /\ UNCHANGED <<params, output_img, finalized, stopped, report>>

\* rank w is at a local step of the given kind
AtLocal(w, kind) == Alive(w) /\ Running(w) /\ CurOp(w).kind = kind

\* rank 0 copies its own block (scatter_image, r == 0)
ScatterLocal(w) ==
    /\ AtLocal(w, "scatter_copy")
    /\ local_img' = [local_img EXCEPT
                        ![w] = ScatterCopy(@, global_img, config[w], N)]
    /\ pc' = [pc EXCEPT ![w] = NextPc(w)]
    /\ run' = [run EXCEPT ![w] = NextRun(w)]
    /\ UNCHANGED <<params, global_img, output_img, half, finalized, stopped, report>>

Compute(w) ==
    /\ AtLocal(w, "compute")
    /\ output_img' = [output_img EXCEPT
                         ![w] = IF kernel = "sobel"
                                THEN compute_sobel_local(local_img[w], config[w])
                                ELSE IdentityKernel(local_img[w], config[w])]
    /\ pc' = [pc EXCEPT ![w] = NextPc(w)]
    /\ run' = [run EXCEPT ![w] = NextRun(w)]
    /\ UNCHANGED <<params, global_img, local_img, half, finalized, stopped, report>>

\* rank 0 copies its own output (gather_image, r == 0)
GatherLocal(w) ==
    /\ AtLocal(w, "gather_copy")
    /\ global_img' = GatherCopy(global_img, output_img[w], config[w], N)
    /\ pc' = [pc EXCEPT ![w] = NextPc(w)]
    /\ run' = [run EXCEPT ![w] = NextRun(w)]
    /\ UNCHANGED <<params, local_img, output_img, half, finalized, stopped, report>>

\* mutant: the barrier waits only for the ranks that are still executing
AllAliveInBarrier ==
    \A w \in Ranks \ stopped : Running(w) /\ CurOp(w).kind = "barrier"

\* every rank has entered MPI_Barrier
AllInBarrier ==
    \A w \in Ranks : Alive(w) /\ Running(w) /\ CurOp(w).kind = "barrier"

\* MPI_Barrier: nobody leaves before every rank has entered
Barrier ==
    /\ AllInBarrier
    /\ pc' = [w \in Ranks |-> NextPc(w)]
    /\ run' = [w \in Ranks |-> NextRun(w)]
    /\ UNCHANGED <<params, global_img, local_img, output_img, half, finalized,
                   stopped, report>>

\* rank w has left the run loop and not yet called MPI_Finalize
AfterLoop(w) == Alive(w) /\ ~Running(w) /\ w \notin finalized

\* the result line of rank 0: the key=value tokens in the order printed;
\* AVG_TIME is (total_time / num_runs) * 1000.0, a wall-clock value
ReportLine ==
    << <<"RANKS", world_size>>, <<"SIZE", N>>, <<"RUNS", num_runs>>,
       <<"AVG_TIME", "avg_time">> >>

\* after the loop: rank 0 prints the result line, every rank calls MPI_Finalize
Finalize(w) ==
    /\ AfterLoop(w)
    /\ finalized' = finalized \cup {w}
    /\ report' = IF w = 0 THEN Append(report, ReportLine) ELSE report
    /\ UNCHANGED <<params, global_img, local_img, output_img, pc, run, half,
                   stopped>>

Next ==
    \/ \E s \in Ranks, d \in Ranks : Transfer(s, d)
    \/ \E w \in Ranks : ScatterLocal(w)
    \/ \E w \in Ranks : Compute(w)
    \/ \E w \in Ranks : GatherLocal(w)
    \/ Barrier
    \/ \E w \in Ranks : Finalize(w)

Spec == Init /\ [][Next]_vars

\* the same run with the identity kernel in place of compute_sobel_local
RoundTripInit == InitWith("identity")

RoundTripSpec == RoundTripInit /\ [][Next]_vars

\* ------------------------------------------------- a run with stopped ranks
\* rank w stops inside the run loop (it crashes or hangs): from here on it
\* takes no step; nothing else changes
Stop(w) ==
    /\ Alive(w) /\ Running(w)
    /\ Cardinality(stopped) < MaxStopped
    /\ stopped' = stopped \cup {w}
    /\ UNCHANGED <<params, global_img, local_img, output_img, pc, run, half,
                   finalized, report>>

CrashInit == InitBounded("sobel", MaxCrashP, MaxCrashN)

CrashNext == Next \/ \E w \in Ranks : Stop(w)

CrashSpec == CrashInit /\ [][CrashNext]_vars

\* ------------------------------------------- setup_domain, step by step
\* One call setup_domain(N, rank, world_size): dom.grid_dim is the loop
\* variable of the divisor search, dom.config the DomainConfig returned.
GeomInit ==
    /\ world_size \in 1 .. MaxGeomP
    /\ N \in 3 .. MaxGeomN
    /\ \E r \in Ranks :
          dom = [pc |-> "search", rank |-> r, grid_dim |-> ISqrt(world_size),
                 config |-> IdleDom.config]
    /\ num_runs = 0
    /\ kernel = "sobel"
    /\ orig_img = << >>
    /\ global_img = << >>
    /\ config = << >>
    /\ prog = << >>
    /\ local_img = << >>
    /\ output_img = << >>
    /\ pc = << >>
    /\ run = << >>
    /\ half = << >>
    /\ finalized = {}
    /\ stopped = {}
    /\ report = << >>
    /\ lat = << >>
    /\ omp = << >>
    /\ script = << >>

\* while (world_size % grid_dim != 0) grid_dim--;
SearchStep ==
    /\ dom.pc = "search"
    /\ SearchContinues(world_size, dom.grid_dim)
    /\ dom' = [dom EXCEPT !.grid_dim = @ - 1]
    /\ UNCHANGED <<world_size, N, runstate, lat, omp, script>>

\* the loop exits; the rest of setup_domain fills the DomainConfig
SearchExit ==
    /\ dom.pc = "search"
    /\ ~SearchContinues(world_size, dom.grid_dim)
    /\ dom' = [dom EXCEPT !.pc = "resolved",
                          !.config = DomainFromGrid(N, dom.rank, world_size,
                                                    dom.grid_dim)]
    /\ UNCHANGED <<world_size, N, runstate, lat, omp, script>>

GeomNext == SearchStep \/ SearchExit

GeomSpec == GeomInit /\ [][GeomNext]_vars

\* the process running setup_domain keeps running
GeomFairSpec == GeomSpec /\ WF_vars(GeomNext)

\* --------------------------------- the latency benchmark (unnamed/part_000)
\* Everything but world_size, finalized, report and lat is unused here.
sobelstate == <<N, num_runs, kernel, orig_img, config, prog, dom, global_img,
                local_img, output_img, pc, run, half, stopped>>

\* vector<int> sizes
LatSizes == <<1, 10, 100, 1000, 10000, 100000, 1000000>>

\* mutant: 1000 iterations only up to 1000 bytes
LatIterationsShortMiddle(size) ==
    IF size <= 100 THEN 10000 ELSE (IF size <= 1000 THEN 1000 ELSE 100)

\* int iterations = (size <= 100) ? 10000 : (size <= 10000) ? 1000 : 100;
LatIterations(size) ==
    IF size <= 100 THEN 10000 ELSE (IF size <= 10000 THEN 1000 ELSE 100)

\* rank w at the head of the loop over sizes, about to handle sizes[k]:
\* ranks 0 and 1 enter measure_pair (its barrier first), the others go
\* straight to the barrier of the loop body; after the last size the loop ends
LatEnterSize(w, k) ==
    IF k > Len(LatSizes) THEN [pc |-> "end", k |-> k, i |-> 0]
    ELSE IF w <= 1 THEN [pc |-> "pair_barrier", k |-> k, i |-> 0]
    ELSE [pc |-> "barrier", k |-> k, i |-> 0]

LatInit ==
    /\ world_size \in 1 .. MaxLatP
    /\ lat = [r \in Ranks |-> [pc |-> "start", k |-> 1, i |-> 0]]
    /\ finalized = {}
    /\ report = << >>
    /\ N = 0
    /\ num_runs = 0
    /\ kernel = "sobel"
    /\ orig_img = << >>
    /\ global_img = << >>
    /\ config = << >>
    /\ prog = << >>
    /\ local_img = << >>
    /\ output_img = << >>
    /\ pc = << >>
    /\ run = << >>
    /\ half = << >>
    /\ stopped = {}
    /\ dom = IdleDom
    /\ omp = << >>
    /\ script = << >>

\* if (world_size < 2) { ...; MPI_Finalize(); return 1; }, else the loop starts
LatStart(w) ==
    /\ lat[w].pc = "start"
    /\ lat' = [lat EXCEPT ![w] = IF world_size < 2
                                  THEN [pc |-> "end", k |-> 1, i |-> 0]
                                  ELSE LatEnterSize(w, 1)]
    /\ UNCHANGED <<world_size, sobelstate, script, omp, finalized, report>>

\* rank w is blocked in MPI_Barrier (measure_pair line 24 or main line 93)
LatInBarrier(w) == lat[w].pc \in {"pair_barrier", "barrier"}

\* where rank w continues when the barrier it is in completes
LatAfterBarrier(w) ==
    IF lat[w].pc = "pair_barrier"
    THEN (IF LatIterations(LatSizes[lat[w].k]) = 0
          THEN [lat[w] EXCEPT !.pc = "barrier"]
          ELSE [lat[w] EXCEPT !.pc = IF w = 0 THEN "send" ELSE "recv"])
    ELSE (IF w = 0 THEN [lat[w] EXCEPT !.pc = "print"]
                   ELSE LatEnterSize(w, lat[w].k + 1))

\* MPI_Barrier(MPI_COMM_WORLD) completes when every rank of the world is in
\* a barrier call
LatBarrier ==
    /\ \A w \in Ranks : LatInBarrier(w)
    /\ lat' = [w \in Ranks |-> LatAfterBarrier(w)]
    /\ UNCHANGED <<world_size, sobelstate, script, omp, finalized, report>>

\* rank s is in MPI_Send to d and d in MPI_Recv from s (tag 0 on both sides)
LatMatches(s, d) ==
    /\ s \in {0, 1} /\ d \in {0, 1} /\ s # d
    /\ lat[s].pc = "send" /\ lat[d].pc = "recv"

\* the message is delivered.  Rank 0 sends first and receives second, rank 1
\* receives first and sends second; the second operation ends the round trip
LatTransfer(s, d) ==
    /\ LatMatches(s, d)
    /\ LET last(w) == lat[w].i + 1 >= LatIterations(LatSizes[lat[w].k])
       IN  lat' = [lat EXCEPT
                     ![0] = IF s = 0 THEN [@ EXCEPT !.pc = "recv"]
                            ELSE [@ EXCEPT !.i = @ + 1,
                                           !.pc = IF last(0) THEN "barrier" ELSE "send"],
                     ![1] = IF s = 0 THEN [@ EXCEPT !.pc = "send"]
                            ELSE [@ EXCEPT !.i = @ + 1,
                                           !.pc = IF last(1) THEN "barrier" ELSE "recv"]]
    /\ UNCHANGED <<world_size, sobelstate, script, omp, finalized, report>>

\* rank 0 prints the result line of the size (lines 95-99)
LatPrint ==
    /\ lat[0].pc = "print"
    /\ report' = Append(report, <<LatSizes[lat[0].k], "latency_us", "bandwidth_mbps">>)
    /\ lat' = [lat EXCEPT ![0] = LatEnterSize(0, lat[0].k + 1)]
    /\ UNCHANGED <<world_size, sobelstate, script, omp, finalized>>

\* MPI_Finalize and return
LatFinalize(w) ==
    /\ lat[w].pc = "end"
    /\ lat' = [lat EXCEPT ![w].pc = "done"]
    /\ finalized' = finalized \cup {w}
    /\ UNCHANGED <<world_size, sobelstate, script, omp, report>>

LatNext ==
    \/ \E w \in Ranks : LatStart(w)
    \/ LatBarrier
    \/ \E s \in Ranks, d \in Ranks : LatTransfer(s, d)
    \/ LatPrint
    \/ \E w \in Ranks : LatFinalize(w)

LatSpec == LatInit /\ [][LatNext]_vars

\* ------------------------- the shared-memory program (Phase1/edge_detiction)
\* for i, j: img[i*N + j] = (i*31 + j*17) % 256
make_test_image(n) ==
    [x \in 0 .. (n * n - 1) |-> ((x \div n) * 31 + (x % n) * 17) % 256]

\* further inputs of run_sobel_seq / run_sobel_omp: a checkerboard and a
\* vertical step edge
Checkerboard(n) == [x \in 0 .. (n * n - 1) |-> (((x \div n) + (x % n)) % 2) * 255]
StepEdge(n) == [x \in 0 .. (n * n - 1) |-> IF 2 * (x % n) >= n THEN 200 ELSE 10]

OmpImages(n) == {make_test_image(n), Checkerboard(n), StepEdge(n)}

\* int Gx = -img[(i-1)*N + (j-1)] - 2*img[i*N + (j-1)] - img[(i+1)*N + (j-1)]
\*          + img[(i-1)*N + (j+1)] + 2*img[i*N + (j+1)] + img[(i+1)*N + (j+1)]
OmpGx(img, n, i, j) ==
    0 - img[(i-1)*n + (j-1)] - 2 * img[i*n + (j-1)] - img[(i+1)*n + (j-1)]
      + img[(i-1)*n + (j+1)] + 2 * img[i*n + (j+1)] + img[(i+1)*n + (j+1)]

\* int Gy = -img[(i-1)*N + (j-1)] - 2*img[(i-1)*N + j] - img[(i-1)*N + (j+1)]
\*          + img[(i+1)*N + (j-1)] + 2*img[(i+1)*N + j] + img[(i+1)*N + (j+1)]
OmpGy(img, n, i, j) ==
    0 - img[(i-1)*n + (j-1)] - 2 * img[(i-1)*n + j] - img[(i-1)*n + (j+1)]
      + img[(i+1)*n + (j-1)] + 2 * img[(i+1)*n + j] + img[(i+1)*n + (j+1)]

\* int val = (int) std::sqrt((double)Gx*Gx + (double)Gy*Gy); clamp255(val)
OmpPixel(img, n, i, j) ==
    clamp255(ISqrt(OmpGx(img, n, i, j) * OmpGx(img, n, i, j)
                   + OmpGy(img, n, i, j) * OmpGy(img, n, i, j)))

\* run_sobel_seq: the loops over i, j in 1 .. N-2 in row-major order, each
\* storing one pixel into out
RECURSIVE SeqLoop(_, _, _, _)
SeqLoop(img, out, n, q) ==
    IF q >= (n - 2) * (n - 2) THEN out
    ELSE LET i == 1 + (q \div (n - 2))
             j == 1 + (q % (n - 2))
         IN  SeqLoop(img, [out EXCEPT ![i * n + j] = OmpPixel(img, n, i, j)], n, q + 1)

\* vector<int> out(N*N)
OmpZeroOut(n) == [x \in 0 .. (n * n - 1) |-> 0]

run_sobel_seq(img, out, n) == SeqLoop(img, out, n, 0)

\* schedule(static) over the collapsed (N-2)*(N-2) iterations: contiguous
\* chunks in thread order, at most one per thread; bounds[t] .. bounds[t+1]-1
\* is the chunk of thread t.  The chunk sizes are left to the runtime.
StaticChunks(m, threads) ==
    {b \in [1 .. (threads + 1) -> 0 .. m] :
        /\ b[1] = 0
        /\ b[threads + 1] = m
        /\ \A t \in 1 .. threads : b[t] <= b[t + 1]}

\* mutant: a chunk starts one iteration before the end of the previous one
ChunkStartOverlapping(b, t) == IF b[t] > 0 THEN b[t] - 1 ELSE b[t]

\* first iteration of thread t
ChunkStart(b, t) == b[t]

OmpThreads == 1 .. omp.threads

OmpInit ==
    /\ \E n \in 3 .. MaxOmpN, threads \in 1 .. MaxOmpT :
         \E img \in OmpImages(n) :
           omp = [pc |-> "start", n |-> n, threads |-> threads, img |-> img,
                  out |-> OmpZeroOut(n), bounds |-> << >>, next |-> << >>,
                  writers |-> [x \in 0 .. (n * n - 1) |-> {}]]
    /\ world_size = 1
    /\ lat = << >>
    /\ script = << >>
    /\ finalized = {}
    /\ report = << >>
    /\ N = 0
    /\ num_runs = 0
    /\ kernel = "sobel"
    /\ orig_img = << >>
    /\ global_img = << >>
    /\ config = << >>
    /\ prog = << >>
    /\ local_img = << >>
    /\ output_img = << >>
    /\ pc = << >>
    /\ run = << >>
    /\ half = << >>
    /\ stopped = {}
    /\ dom = IdleDom

\* #pragma omp parallel for collapse(2) schedule(static): the team starts and
\* every thread is given its chunk
OmpFork ==
    /\ omp.pc = "start"
    /\ \E b \in StaticChunks((omp.n - 2) * (omp.n - 2), omp.threads) :
         omp' = [omp EXCEPT !.pc = "parallel", !.bounds = b,
                            !.next = [t \in OmpThreads |-> ChunkStart(b, t)]]
    /\ UNCHANGED <<world_size, sobelstate, script, lat, finalized, report>>

\* thread t runs the loop body for its next iteration
OmpStep(t) ==
    /\ omp.pc = "parallel"
    /\ omp.next[t] < omp.bounds[t + 1]
    /\ LET q == omp.next[t]
           i == 1 + (q \div (omp.n - 2))
           j == 1 + (q % (omp.n - 2))
       IN  omp' = [omp EXCEPT
                     !.out[i * omp.n + j] = OmpPixel(omp.img, omp.n, i, j),
                     !.writers[i * omp.n + j] = @ \cup {t},
                     !.next[t] = q + 1]
    /\ UNCHANGED <<world_size, sobelstate, script, lat, finalized, report>>

\* the implicit barrier at the end of the parallel loop
OmpJoin ==
    /\ omp.pc = "parallel"
    /\ \A t \in OmpThreads : omp.next[t] >= omp.bounds[t + 1]
    /\ omp' = [omp EXCEPT !.pc = "done"]
    /\ UNCHANGED <<world_size, sobelstate, script, lat, finalized, report>>

OmpNext ==
    \/ OmpFork
    \/ \E t \in OmpThreads : OmpStep(t)
    \/ OmpJoin

OmpSpec == OmpInit /\ [][OmpNext]_vars

\* ------------------- main of the shared-memory program (Phase1/edge_detiction)
\* The command line: argc, the mode string, N, threads, num_runs (stoi of the
\* arguments, or the defaults 1024, 1, 5), and whether the binary was built
\* with OpenMP.  The variable omp holds the state of main.
CliModes == {"seq", "omp", "fast"}

CliArgs ==
    {[argc |-> argc, mode |-> mode,
      N |-> IF argc > 2 THEN n ELSE 1024,
      threads |-> IF argc > 3 THEN t ELSE 1,
      num_runs |-> IF argc > 4 THEN k ELSE 5,
      openmp |-> b] :
        argc \in 1 .. 5, mode \in CliModes, n \in 0 .. MaxCliN,
        t \in 0 .. MaxCliThreads, k \in 0 .. MaxCliRuns, b \in BOOLEAN}

CliInit ==
    /\ \E a \in CliArgs :
         omp = [pc |-> "start", args |-> a, run |-> 0, times |-> << >>,
                stdout |-> << >>, status |-> -1]
    /\ world_size = 1
    /\ lat = << >>
    /\ script = << >>
    /\ finalized = {}
    /\ report = << >>
    /\ N = 0
    /\ num_runs = 0
    /\ kernel = "sobel"
    /\ orig_img = << >>
    /\ global_img = << >>
    /\ config = << >>
    /\ prog = << >>
    /\ local_img = << >>
    /\ output_img = << >>
    /\ pc = << >>
    /\ run = << >>
    /\ half = << >>
    /\ stopped = {}
    /\ dom = IdleDom

\* the status the shell sees when the process is ended by SIGSEGV
SIGNALLED == 139

\* main returns (or the process is ended) with the given status; -1: running
CliExit(status) == [omp EXCEPT !.pc = "exit", !.status = status]

\* if (argc < 2) { usage; return 1; }, then the arguments are parsed
CliUsage ==
    /\ omp.pc = "start"
    /\ omp' = IF omp.args.argc < 2
              THEN [CliExit(1) EXCEPT !.stdout = Append(@, "Usage")]
              ELSE [omp EXCEPT !.pc = "validate"]
    /\ UNCHANGED <<world_size, sobelstate, script, lat, finalized, report>>

\* if (N < 3) return 1; if (threads < 1) return 1;
CliRejects(a) == a.N < 3 \/ a.threads < 1

CliValidate ==
    /\ omp.pc = "validate"
    /\ omp' = IF CliRejects(omp.args) THEN CliExit(1)
              ELSE [omp EXCEPT !.pc = "warmup"]
    /\ UNCHANGED <<world_size, sobelstate, script, lat, finalized, report>>

\* the image is made and the warm-up run is done (nothing for another mode)
CliWarmup ==
    /\ omp.pc = "warmup"
    /\ omp' = [omp EXCEPT !.pc = "loop"]
    /\ UNCHANGED <<world_size, sobelstate, script, lat, finalized, report>>

\* one pass of the measurement loop: the kernel of the mode is timed, a
\* binary without OpenMP returns 2 for "omp", an unknown mode returns 1
CliRun ==
    /\ omp.pc = "loop"
    /\ omp.run < omp.args.num_runs
    /\ omp' = IF omp.args.mode = "seq" \/ (omp.args.mode = "omp" /\ omp.args.openmp)
              THEN [omp EXCEPT !.times = Append(@, "ms"), !.run = @ + 1]
              ELSE IF omp.args.mode = "omp" THEN CliExit(2)
              ELSE CliExit(1)
    /\ UNCHANGED <<world_size, sobelstate, script, lat, finalized, report>>

\* the outcomes of the statistics and the report after the loop.  With an
\* empty times vector *min_element(times.begin(), times.end()) dereferences
\* the end iterator: the process is ended by a signal, or it goes on with
\* whatever was read, prints the line and returns 0.
CliReportOutcomes ==
    LET printed == [omp EXCEPT !.pc = "exit", !.status = 0,
                               !.stdout = Append(@, "MODE")]
    IN  IF omp.times = << >> THEN {printed, CliExit(SIGNALLED)}
                              ELSE {printed}

CliReport ==
    /\ omp.pc = "loop"
    /\ omp.run >= omp.args.num_runs
    /\ omp' \in CliReportOutcomes
    /\ UNCHANGED <<world_size, sobelstate, script, lat, finalized, report>>

CliNext == CliUsage \/ CliValidate \/ CliWarmup \/ CliRun \/ CliReport

CliSpec == CliInit /\ [][CliNext]_vars

\* --------------------------- the weak-scaling benchmark (unnamed/part_007)
\* everything the scripts do not touch
programstate == <<world_size, sobelstate, lat, omp, finalized, report>>

\* PROCESSES=(1 2 4 8)
PROCESSES == <<1, 2, 4, 8>>

PROBLEM_PER_RANK == 512

\* grid_dim=$(echo "sqrt($procs)" | bc); image_size=$((grid_dim * PROBLEM_PER_RANK))
\* bc computes with scale 0: the square root is truncated to an integer
WeakImageSize(procs) == ISqrt(procs) * PROBLEM_PER_RANK

WeakInit ==
    /\ \E binary \in BOOLEAN :
         script = [pc |-> "start", binary |-> binary, k |-> 1, baseline |-> 0,
                   csv |-> << >>, status |-> -1]
    /\ world_size = 1
    /\ lat = << >>
    /\ omp = << >>
    /\ finalized = {}
    /\ report = << >>
    /\ N = 0
    /\ num_runs = 0
    /\ kernel = "sobel"
    /\ orig_img = << >>
    /\ global_img = << >>
    /\ config = << >>
    /\ prog = << >>
    /\ local_img = << >>
    /\ output_img = << >>
    /\ pc = << >>
    /\ run = << >>
    /\ half = << >>
    /\ stopped = {}
    /\ dom = IdleDom

\* the binary is looked for (exit 1 without it) and the CSV header is written
WeakStart ==
    /\ script.pc = "start"
    /\ script' = IF script.binary
                 THEN [script EXCEPT !.pc = "loop", !.csv = << "header" >>]
                 ELSE [script EXCEPT !.pc = "exit", !.status = 1]
    /\ UNCHANGED programstate

\* one pass of the benchmark loop: the image size is computed, the program is
\* run and reports an average time of avg ms in a RANKS= line that has no
\* MIN= and MAX= (the greps give "0"), the efficiency is baseline / avg to
\* three decimals (in thousandths here), and the row is appended to the CSV
WeakRun ==
    /\ script.pc = "loop"
    /\ script.k <= Len(PROCESSES)
    /\ \E avg \in 1 .. MaxWeakTime :
         LET procs      == PROCESSES[script.k]
             image_size == WeakImageSize(procs)
             baseline   == IF procs = 1 THEN avg ELSE script.baseline
             efficiency == IF procs = 1 THEN 1000 ELSE (baseline * 1000) \div avg
         IN  script' = [script EXCEPT
                          !.k = @ + 1,
                          !.baseline = baseline,
                          !.csv = Append(@, [procs |-> procs, image_size |-> image_size,
                                             avg_time |-> avg, min_time |-> 0,
                                             max_time |-> 0, efficiency |-> efficiency])]
    /\ UNCHANGED programstate

\* the loop is over: the closing messages are printed
WeakDone ==
    /\ script.pc = "loop"
    /\ script.k > Len(PROCESSES)
    /\ script' = [script EXCEPT !.pc = "exit", !.status = 0]
    /\ UNCHANGED programstate

WeakNext == WeakStart \/ WeakRun \/ WeakDone

WeakSpec == WeakInit /\ [][WeakNext]_vars

\* ------------- the service replicas and the failure injection (phase III)
\* Server names server-0 .. server-MaxReplicas: the last one is never started
ServerIds == 0 .. MaxReplicas

\* $1 of inject_failure.sh: the four known types and one that is not known
FailureTypes == {"crash", "delay", "freeze", "resume", "pause"}

\* no script has been run yet; last is the last script run and its result
NoInjection == [type |-> "none", target |-> -1, status |-> -1, signal |-> "none"]

InjectInit ==
    /\ script = [servers |-> [i \in ServerIds |-> [pidfile |-> FALSE, proc |-> "none"]],
                 last |-> NoInjection]
    /\ world_size = 1
    /\ lat = << >>
    /\ omp = << >>
    /\ finalized = {}
    /\ report = << >>
    /\ N = 0
    /\ num_runs = 0
    /\ kernel = "sobel"
    /\ orig_img = << >>
    /\ global_img = << >>
    /\ config = << >>
    /\ prog = << >>
    /\ local_img = << >>
    /\ output_img = << >>
    /\ pc = << >>
    /\ run = << >>
    /\ half = << >>
    /\ stopped = {}
    /\ dom = IdleDom

\* mutant: the liveness test always succeeds
ProcessAliveAlways(proc) == TRUE

\* kill -0 "$PID": a process with the recorded PID exists (running or stopped)
ProcessAlive(proc) == proc \in {"running", "stopped"}

\* start_replicas.sh with NUM_REPLICAS = n, run while no replica is alive:
\* each server-i, i < n, is started in the background and its PID is
\* written to logs/server-i.pid
StartReplicas(n) ==
    /\ \A i \in ServerIds : script.servers[i].proc \in {"none", "dead"}
    /\ script' = [script EXCEPT
                     !.servers = [i \in ServerIds |->
                                     IF i < n THEN [pidfile |-> TRUE, proc |-> "running"]
                                              ELSE script.servers[i]],
                     !.last = [type |-> "start", target |-> n, status |-> 0,
                               signal |-> "none"]]
    /\ UNCHANGED programstate

\* the signal the script sends for a failure type (none for delay)
SignalOf(type) ==
    CASE type = "crash"  -> "KILL"
      [] type = "freeze" -> "STOP"
      [] type = "resume" -> "CONT"
      [] OTHER           -> "none"

\* what a signal does to a live process
Deliver(signal, proc) ==
    CASE signal = "KILL" -> "dead"
      [] signal = "STOP" -> "stopped"
      [] signal = "CONT" -> "running"
      [] OTHER           -> proc

\* inject_failure.sh <type> server-<target>
Inject(type, target) ==
    LET srv == script.servers[target]
    IN  /\ script' =
              IF type \in {"crash", "freeze", "resume"}
              THEN (IF ~srv.pidfile
                    THEN [script EXCEPT !.last = [type |-> type, target |-> target,
                                                  status |-> 1, signal |-> "none"]]
                    ELSE IF ~ProcessAlive(srv.proc)
                    THEN [script EXCEPT !.last = [type |-> type, target |-> target,
                                                  status |-> 1, signal |-> "none"]]
                    ELSE [script EXCEPT
                            !.servers[target].proc = Deliver(SignalOf(type), srv.proc),
                            !.last = [type |-> type, target |-> target,
                                      status |-> 0, signal |-> SignalOf(type)]])
              ELSE IF type = "delay"
              THEN [script EXCEPT !.last = [type |-> type, target |-> target,
                                            status |-> 0, signal |-> "none"]]
              ELSE [script EXCEPT !.last = [type |-> type, target |-> target,
                                            status |-> 1, signal |-> "none"]]
        /\ UNCHANGED programstate

InjectNext ==
    \/ \E n \in 1 .. MaxReplicas : StartReplicas(n)
    \/ \E type \in FailureTypes, target \in ServerIds : Inject(type, target)

InjectSpec == InjectInit /\ [][InjectNext]_vars


\* ================================================================ claims
RECURSIVE SumOver(_, _)
SumOver(f, S) ==
    IF S = {} THEN 0
    ELSE LET x == CHOOSE y \in S : TRUE
         IN  f[x] + SumOver(f, S \ {x})

Resolved == dom.pc = "resolved"

\* the DomainConfig each rank of the same launch derives for itself
PeerConfig(r) == setup_domain(N, r, world_size)

\* C5: for every worker count and image size, local_rows summed over the
\* ranks of the caller's grid column is N, and local_cols summed over the
\* ranks of the caller's grid row is N.
C5_PartitionSums ==
    Resolved =>
        LET me      == dom.config
            cfgs    == [r \in Ranks |-> IF r = me.rank THEN me ELSE PeerConfig(r)]
            sameCol == {r \in Ranks : cfgs[r].my_col = me.my_col}
            sameRow == {r \in Ranks : cfgs[r].my_row = me.my_row}
        IN  /\ SumOver([r \in Ranks |-> cfgs[r].local_rows], sameCol) = N
            /\ SumOver([r \in Ranks |-> cfgs[r].local_cols], sameRow) = N

\* a rank of the last grid column that absorbed a remainder
C5_Witness ==
    /\ Resolved
    /\ world_size = 6 /\ N = 8
    /\ dom.config.my_col = dom.config.grid_cols - 1
    /\ dom.config.local_cols = 4
    /\ dom.config.local_rows = 4

InRegion(reg, i, j) ==
    /\ i >= reg.start_row /\ i < reg.start_row + reg.rows
    /\ j >= reg.start_col /\ j < reg.start_col + reg.cols

\* C6: the sub-regions rank 0 computes in scatter_image and in gather_image
\* are pairwise disjoint and cover every pixel of the image exactly once.
C6_RegionsPartition ==
    (Resolved /\ dom.rank = 0) =>
        \A i \in 0 .. (N - 1), j \in 0 .. (N - 1) :
            /\ Cardinality({r \in Ranks :
                               InRegion(ScatterRegion(dom.config, N, r), i, j)}) = 1
            /\ Cardinality({r \in Ranks :
                               InRegion(GatherRegion(dom.config, N, r), i, j)}) = 1

\* rank 0 of a 2x3 grid on a 7x7 image: the last region takes the remainders
C6_Witness ==
    /\ Resolved /\ dom.rank = 0
    /\ world_size = 6 /\ N = 7
    /\ ScatterRegion(dom.config, N, 5) =
           [start_row |-> 3, start_col |-> 4, rows |-> 4, cols |-> 3]
    /\ GatherRegion(dom.config, N, 5) = ScatterRegion(dom.config, N, 5)

\* the largest d with d*d <= p that divides p
LargestDivisorUpToSqrt(p) ==
    CHOOSE d \in 1 .. p :
        /\ d * d <= p /\ p % d = 0
        /\ \A e \in 1 .. p : (e * e <= p /\ p % e = 0) => e <= d

\* C7: the divisor search never leaves 1..floor(sqrt(p)), stops, and yields
\* grid_rows = the largest divisor of p not above sqrt(p), grid_cols =
\* p / grid_rows, hence grid_rows * grid_cols = p and grid_rows <= grid_cols.
C7_DivisorSearch ==
    /\ [](dom.pc = "search" => dom.grid_dim >= 1)
    /\ [](Resolved =>
            /\ dom.config.grid_rows = LargestDivisorUpToSqrt(world_size)
            /\ dom.config.grid_cols * dom.config.grid_rows = world_size
            /\ dom.config.grid_rows <= dom.config.grid_cols)
    /\ <>Resolved

\* a search that had to step down twice: p = 11, from 3 to 1
C7_Witness ==
    /\ Resolved
    /\ world_size = 11
    /\ dom.config.grid_rows = 1 /\ dom.config.grid_cols = 11


\* ------------------------------------------------------- the full run
ExchangeStages == {"north", "south", "west", "east"}

\* some rank can take a step: a message can be delivered, a local step is
\* due, the barrier is complete, or a rank can finalize
CanStep ==
    \/ \E s \in Ranks, d \in Ranks : Matches(s, d)
    \/ \E w \in Ranks : AtLocal(w, "scatter_copy") \/ AtLocal(w, "compute")
                              \/ AtLocal(w, "gather_copy")
    \/ AllInBarrier
    \/ \E w \in Ranks : AfterLoop(w)

\* how far rank w has come: operations completed, halves of the current one
\* completed, MPI_Finalize called
RankProgress(w) ==
    3 * (run[w] * Len(prog[w]) + pc[w]) + Cardinality(half[w])
    + (IF w \in finalized THEN 1 ELSE 0)

RECURSIVE ProgressUpTo(_)
ProgressUpTo(w) == IF w < 0 THEN 0 ELSE RankProgress(w) + ProgressUpTo(w - 1)

\* how far the ranks have come: every step of the run raises it
Progress == ProgressUpTo(world_size - 1)

\* rank w has left exchange_halo_blocking in its current iteration
ExchangeDone(w) ==
    Running(w) /\ Stage(w) \in {"compute", "gather", "gather_barrier"}

\* rank 0 has stored every rank's rows of the current iteration
Collected ==
    \/ Running(0) /\ Stage(0) = "gather_barrier"
    \/ ~Running(0)

AfterFirstIteration ==
    \/ run[0] = 0 /\ Stage(0) = "gather_barrier"
    \/ num_runs = 1 /\ ~Running(0)

\* GlobalImage after one iteration of a single-worker run on img
P1Output(img, n) ==
    LET c1 == setup_domain(n, 0, 1)
    IN  GatherCopy(img,
                   compute_sobel_local(ScatterCopy(ZeroTile(c1), img, c1, n), c1),
                   c1, n)

\* C1: after one iteration the gathered output equals the output of the
\* single-worker run at every pixel with row and column in 1..N-2, whatever
\* the worker count.
C1_InteriorIndependentOfP ==
    AfterFirstIteration =>
        \A i \in 1 .. (N - 2), j \in 1 .. (N - 2) :
            global_img[i * N + j] = P1Output(orig_img, N)[i * N + j]

\* C2: a rank that is inside the boundary exchange leaves it: all its
\* north, south, west and east paired exchanges complete.
C2_ExchangeCompletes ==
    (\E w \in Ranks : Running(w) /\ Stage(w) \in ExchangeStages) => CanStep

\* a 2x3 grid whose middle rank of the top row has finished all three of its
\* exchanges (south, west, east) in the second iteration
C2_Witness ==
    /\ world_size = 6 /\ N = 4
    /\ run[1] = 1
    /\ Stage(1) = "compute"
    /\ Stage(4) \in ExchangeStages

Cell(w, i, j) == local_img[w][i * Pitch(config[w]) + j]

\* C3: once a rank has left the exchange, on every side with a neighbor each
\* border cell equals the neighbor's facing edge-interior cell (for a
\* neighbor whose tile has an interior in that direction).
C3_BorderEqualsNeighborEdge ==
    \A w \in Ranks :
        ExchangeDone(w) =>
            LET c == config[w]
                h == c.halo_size
            IN  /\ (North(c) # MPI_PROC_NULL /\ config[North(c)].local_rows >= 1) =>
                       \A j \in 0 .. (c.local_cols - 1) :
                           Cell(w, 0, j + h) =
                               Cell(North(c), config[North(c)].local_rows - 1 + h, j + h)
                /\ (South(c) # MPI_PROC_NULL /\ config[South(c)].local_rows >= 1) =>
                       \A j \in 0 .. (c.local_cols - 1) :
                           Cell(w, c.local_rows + h, j + h) = Cell(South(c), h, j + h)
                /\ (West(c) # MPI_PROC_NULL /\ config[West(c)].local_cols >= 1) =>
                       \A i \in 0 .. (c.local_rows - 1) :
                           Cell(w, i + h, 0) =
                               Cell(West(c), i + h, config[West(c)].local_cols - 1 + h)
                /\ (East(c) # MPI_PROC_NULL /\ config[East(c)].local_cols >= 1) =>
                       \A i \in 0 .. (c.local_rows - 1) :
                           Cell(w, i + h, c.local_cols + h) = Cell(East(c), i + h, h)

\* N = 4, p = 4, test image: worker (0,0)'s east border holds the first
\* interior column of worker (0,1), pixels (0,2) = 34 and (1,2) = 65
C3_Witness ==
    /\ world_size = 4 /\ N = 4 /\ orig_img = TestImage(4)
    /\ run[0] = 0 /\ ExchangeDone(0)
    /\ Cell(0, 1, 3) = 34 /\ Cell(0, 2, 3) = 65
    /\ Cell(1, 1, 1) = 34 /\ Cell(1, 2, 1) = 65

\* C4: with the identity kernel, Distribute followed by Collect leaves
\* GlobalImage equal to the original image at every pixel.
C4_RoundTrip ==
    Collected => global_img = orig_img

\* a 2x3 grid on a 4x4 image after the second Collect; the last rank's
\* output tile starts with pixel (2,2)
C4_Witness ==
    /\ kernel = "identity"
    /\ world_size = 6 /\ N = 4 /\ orig_img = CodeImage(4)
    /\ run[0] = 1 /\ Stage(0) = "gather_barrier"
    /\ output_img[5][0] = 10
    /\ global_img = orig_img

\* C8: every rank reaches MPI_Finalize: as long as some rank has not
\* finalized some rank can take a step, and every step brings the run closer
\* to its end (the loop counters only grow and are bounded by num_runs).
C8_AllFinalize ==
    /\ [](finalized # Ranks => CanStep)
    /\ [](\A w \in Ranks : run[w] <= num_runs /\ pc[w] <= Len(prog[w]))
    /\ [][Progress' > Progress]_vars

C8_Witness ==
    /\ finalized = Ranks
    /\ world_size = 6 /\ N = 4 /\ num_runs = 2

\* C9: while any rank is inside the boundary exchange of an iteration, no
\* rank is still in the Distributor step of that iteration or in an earlier
\* iteration.
C9_ExchangeAfterDistribute ==
    \A w \in Ranks :
        (Running(w) /\ Stage(w) \in ExchangeStages) =>
            \A v \in Ranks :
                /\ run[v] = run[w]
                /\ Stage(v) \notin {"scatter", "scatter_barrier"}

\* the last rank of a 2x2 grid is exchanging in the second iteration
C9_Witness ==
    /\ world_size = 4
    /\ run[3] = 1 /\ Stage(3) \in ExchangeStages
    /\ half[3] # {}

\* C10: no rank is in iteration k+1 while another rank is still in
\* iteration k: all ranks are always in the same iteration.
C10_IterationsInLockstep ==
    \A w \in Ranks, v \in Ranks : run[w] = run[v]

\* the second iteration has started: rank 0 is sending rows again
C10_Witness ==
    /\ world_size = 4
    /\ run[0] = 1 /\ Running(0)
    /\ Stage(0) = "scatter" /\ pc[0] > 1

\* the place of a stage in one iteration: Distribute 0, Exchange 1,
\* Compute 2, Collect 3
PhaseOf(stage) ==
    IF stage \in {"scatter", "scatter_barrier"} THEN 0
    ELSE IF stage \in ExchangeStages THEN 1
    ELSE IF stage = "compute" THEN 2
    ELSE 3

\* how many stages rank w has behind it: four per finished iteration, the
\* place of its stage in the current one; Finalize is the stage after the
\* last Collect
Position(w) ==
    IF w \in finalized THEN 4 * num_runs + 1
    ELSE IF ~Running(w) THEN 4 * num_runs
    ELSE 4 * run[w] + PhaseOf(CurOp(w).stage)

\* C11: every rank starts in the Distribute stage of iteration 0 and every
\* step leaves it in its stage or moves it to the next stage of the order
\* Distribute, Exchange, Compute, Collect, Distribute, ..., Finalize (past an
\* Exchange that consists of no operation for a rank without neighbors);
\* the loop is left after exactly num_runs iterations.
C11_StageOrder ==
    /\ \A w \in Ranks : Position(w) = 0
    /\ [][\A w \in Ranks :
            \/ Position(w)' = Position(w)
            \/ Position(w)' = Position(w) + 1
            \/ /\ Position(w)' = Position(w) + 2
               /\ Running(w) /\ PhaseOf(CurOp(w).stage) = 0
               /\ ExchangeOps(config[w]) = << >>]_vars
    /\ [](\A w \in Ranks : run[w] <= num_runs /\ Position(w) <= 4 * num_runs + 1)

\* the last rank of a 2x2 grid has gone through two iterations and finalized
\* while rank 0 has left the loop and not yet finalized
C11_Witness ==
    /\ world_size = 4 /\ num_runs = 2
    /\ 3 \in finalized /\ 0 \notin finalized
    /\ Position(3) = 9 /\ Position(0) = 8

\* the operations of rank w's iteration that belong to stage st, in program order
StageOps(w, st) == SelectSeq(prog[w], LAMBDA op : op.stage = st)

\* the rows rank 0 sends to rank r in one Distributor step, in program order
ScatterSendsTo(r) ==
    SelectSeq(StageOps(0, "scatter"),
              LAMBDA op : op.kind = "send" /\ op.snd.peer = r)

\* C12: in a Distributor step every rank r other than 0 posts exactly
\* local_rows(r) receives of local_cols(r) elements, all from rank 0; rank 0
\* posts as many sends of as many elements to r, the region it computes for
\* r has r's own local_rows and local_cols, its sends are in rank order, none
\* is addressed to rank 0, and every message delivered to a rank in its
\* Distributor step comes from rank 0's Distributor step with that length.
C12_ScatterMessages ==
    /\ \A r \in Ranks \ {0} :
          LET recvs == StageOps(r, "scatter")
              sends == ScatterSendsTo(r)
              reg   == ScatterRegion(config[0], N, r)
          IN  /\ Len(recvs) = config[r].local_rows
              /\ \A k \in DOMAIN recvs :
                    /\ recvs[k].kind = "recv"
                    /\ recvs[k].rcv.peer = 0
                    /\ recvs[k].rcv.cnt = config[r].local_cols
              /\ Len(sends) = config[r].local_rows
              /\ \A k \in DOMAIN sends : sends[k].snd.cnt = config[r].local_cols
              /\ reg.rows = config[r].local_rows
              /\ reg.cols = config[r].local_cols
    /\ LET s0 == StageOps(0, "scatter")
       IN  \A k \in DOMAIN s0 :
              s0[k].kind = "send" =>
                  /\ s0[k].snd.peer # 0
                  /\ \A m \in (k + 1) .. Len(s0) :
                        s0[m].kind = "send" => s0[k].snd.peer <= s0[m].snd.peer
    /\ \A s \in Ranks, d \in Ranks :
          (Matches(s, d) /\ CurOp(d).stage = "scatter") =>
              /\ s = 0
              /\ CurOp(s).stage = "scatter"
              /\ CurOp(s).snd.cnt = config[d].local_cols

\* 2x2 grid on a 3x3 image: rank 0 is about to deliver the second of the two
\* 2-element rows of the last rank
C12_Witness ==
    /\ world_size = 4 /\ N = 3
    /\ Matches(0, 3) /\ Stage(3) = "scatter"
    /\ pc[3] = 2
    /\ CurOp(0).snd.cnt = 2

\* C13: once rank 0 has finished the Collector loop of an iteration, for
\* every rank r and every cell (i, j) of r's output tile GlobalImage at
\* (start_row(r) + i, start_col(r) + j) equals that cell.
C13_CollectedInPlace ==
    Collected =>
        \A r \in Ranks :
            LET reg == GatherRegion(config[0], N, r)
                c   == config[r]
            IN  \A i \in 0 .. (c.local_rows - 1), j \in 0 .. (c.local_cols - 1) :
                    global_img[(reg.start_row + i) * N + reg.start_col + j]
                        = output_img[r][i * c.local_cols + j]

\* 2x3 grid on a 4x4 image after the first Collect: the image is no longer
\* the input and its last pixel is the last cell of the last rank's output
C13_Witness ==
    /\ world_size = 6 /\ N = 4
    /\ run[0] = 0 /\ Stage(0) = "gather_barrier"
    /\ global_img # orig_img
    /\ output_img[5] # ZeroOutput(config[5])
    /\ global_img[15] = output_img[5][3]

\* C14: on every side where a rank has no neighbor, the whole border row or
\* column of its tile on that side is zero in every state of the run, and no
\* operation of any rank is addressed to MPI_PROC_NULL.
C14_MissingSideZero ==
    /\ \A w \in Ranks :
          LET c    == config[w]
              h    == c.halo_size
              rows == c.local_rows
              cols == c.local_cols
          IN  /\ North(c) = MPI_PROC_NULL =>
                     \A j \in 0 .. (cols + 2 * h - 1) : Cell(w, 0, j) = 0
              /\ South(c) = MPI_PROC_NULL =>
                     \A j \in 0 .. (cols + 2 * h - 1) : Cell(w, rows + h, j) = 0
              /\ West(c) = MPI_PROC_NULL =>
                     \A i \in 0 .. (rows + 2 * h - 1) : Cell(w, i, 0) = 0
              /\ East(c) = MPI_PROC_NULL =>
                     \A i \in 0 .. (rows + 2 * h - 1) : Cell(w, i, cols + h) = 0
    /\ \A w \in Ranks : \A k \in DOMAIN prog[w] :
          /\ HasSend(prog[w][k]) => prog[w][k].snd.peer \in Ranks
          /\ HasRecv(prog[w][k]) => prog[w][k].rcv.peer \in Ranks

\* second iteration of a 2x2 grid: rank 2 (bottom left) has left the
\* exchange, its north border holds data of rank 0, its west border is zero
C14_Witness ==
    /\ world_size = 4 /\ N = 4
    /\ run[2] = 1 /\ ExchangeDone(2)
    /\ Cell(2, 0, 1) # 0
    /\ Cell(2, 1, 0) = 0 /\ Cell(2, 3, 1) = 0

\* rank w has run the kernel in its current iteration and not yet started
\* the next one: its tile is the one the kernel read
KernelDone(w) == Running(w) /\ Stage(w) \in {"gather", "gather_barrier"}

\* the two 3x3 Sobel sums at cell (i, j) of rank w's padded tile
SobelGx(w, i, j) ==
      (Cell(w, i - 1, j + 1) + 2 * Cell(w, i, j + 1) + Cell(w, i + 1, j + 1))
    - (Cell(w, i - 1, j - 1) + 2 * Cell(w, i, j - 1) + Cell(w, i + 1, j - 1))

SobelGy(w, i, j) ==
      (Cell(w, i + 1, j - 1) + 2 * Cell(w, i + 1, j) + Cell(w, i + 1, j + 1))
    - (Cell(w, i - 1, j - 1) + 2 * Cell(w, i - 1, j) + Cell(w, i - 1, j + 1))

SquaredMagnitude(w, i, j) ==
    SobelGx(w, i, j) * SobelGx(w, i, j) + SobelGy(w, i, j) * SobelGy(w, i, j)

\* m = clamp(round(sqrt(s)), 0, 255): the nearest integer k to sqrt(s) is the
\* one with (2k - 1)^2 <= 4s < (2k + 1)^2
IsClampedRound(m, s) ==
    /\ m \in 0 .. 255
    /\ m = 0 \/ (2 * m - 1) * (2 * m - 1) <= 4 * s
    /\ m = 255 \/ 4 * s < (2 * m + 1) * (2 * m + 1)

\* m = clamp(floor(sqrt(s)), 0, 255)
IsClampedFloor(m, s) ==
    /\ m \in 0 .. 255
    /\ m * m <= s
    /\ m = 255 \/ s < (m + 1) * (m + 1)

\* C15 as stated: after the kernel, every output cell is the clamped
\* gradient magnitude of its tile cell ROUNDED to the nearest integer.
C15_KernelRounds ==
    \A w \in Ranks :
        KernelDone(w) =>
            LET c == config[w]
                h == c.halo_size
            IN  \A i \in 0 .. (c.local_rows - 1), j \in 0 .. (c.local_cols - 1) :
                    IsClampedRound(output_img[w][i * c.local_cols + j],
                                   SquaredMagnitude(w, i + h, j + h))

\* C15 amended: after the kernel, every output cell is the clamped gradient
\* magnitude of its tile cell TRUNCATED to an integer (the fraction of the
\* square root is dropped), Gx and Gy being the two 3x3 Sobel sums over the
\* padded tile.
C15_KernelTruncates ==
    \A w \in Ranks :
        KernelDone(w) =>
            LET c == config[w]
                h == c.halo_size
            IN  \A i \in 0 .. (c.local_rows - 1), j \in 0 .. (c.local_cols - 1) :
                    IsClampedFloor(output_img[w][i * c.local_cols + j],
                                   SquaredMagnitude(w, i + h, j + h))

\* single worker, 4x4 image i % 256: at pixel (1,1) Gx = 8, Gy = 32,
\* sqrt(1088) = 32.98 and the output cell is 32
C15_Witness ==
    /\ world_size = 1 /\ N = 4 /\ orig_img = CodeImage(4)
    /\ run[0] = 0 /\ KernelDone(0)
    /\ SobelGx(0, 2, 2) = 8 /\ SobelGy(0, 2, 2) = 32
    /\ output_img[0][5] = 32

\* every rank is at the barrier that ends the Distributor step
Distributed == AllInBarrier /\ Stage(0) = "scatter_barrier"

\* C16: no iteration takes the previous iteration's output as its input:
\* what every Distributor step hands out is the original image, and (for a
\* single worker, whose one-iteration output is P1Output) the image held at
\* the end of the run is the output of one iteration on the original image.
C16_NotIncremental ==
    /\ Distributed =>
          \A r \in Ranks :
              LET reg == ScatterRegion(config[0], N, r)
                  c   == config[r]
                  h   == c.halo_size
              IN  \A i \in 0 .. (c.local_rows - 1), j \in 0 .. (c.local_cols - 1) :
                      Cell(r, i + h, j + h)
                          = orig_img[(reg.start_row + i) * N + reg.start_col + j]
    /\ (world_size = 1 /\ ~Running(0)) => global_img = P1Output(orig_img, N)

\* operation op reads or writes elements of global_img
TouchesGlobal(op) ==
    \/ op.kind \in {"scatter_copy", "gather_copy"}
    \/ HasSend(op) /\ op.snd.buf = "global"
    \/ HasRecv(op) /\ op.rcv.buf = "global"

\* C18: no operation of a rank other than 0 reads or writes elements of
\* global_img, in any stage, and global_img changes only in a step in which
\* rank 0 completes an operation.
C18_OnlyCoordinatorTouchesGlobal ==
    /\ [](\A w \in Ranks \ {0} : \A k \in DOMAIN prog[w] : ~TouchesGlobal(prog[w][k]))
    /\ [][global_img' # global_img => (pc'[0] # pc[0] \/ run'[0] # run[0])]_vars

\* 2x2 grid: rank 0 is about to store a row of rank 2's output tile into
\* global_img; the row comes from rank 2's output buffer
C18_Witness ==
    /\ world_size = 4 /\ N = 4
    /\ Stage(0) = "gather" /\ Matches(2, 0)
    /\ CurOp(0).rcv.buf = "global" /\ CurOp(2).snd.buf = "output"
    /\ TouchesGlobal(CurOp(0)) /\ ~TouchesGlobal(CurOp(2))

\* the interior cells of rank w's tile are the same before and after the step
InteriorUnchanged(w) ==
    LET c == config[w]
        h == c.halo_size
    IN  \A i \in 0 .. (c.local_rows - 1), j \in 0 .. (c.local_cols - 1) :
            local_img'[w][(i + h) * Pitch(c) + j + h]
                = local_img[w][(i + h) * Pitch(c) + j + h]

\* C19: a rank's tile changes only in a step of its own Distributor or
\* Exchanger stage and its output tile only in its Kernel step; a step of
\* the Exchanger leaves every interior cell of the tile unchanged, the Kernel
\* leaves the tile unchanged, the Collector leaves tile and output tile
\* unchanged.
C19_TileFrame ==
    [][\A w \in Ranks :
          /\ local_img'[w] # local_img[w] =>
                 Stage(w) \in ({"scatter"} \cup ExchangeStages)
          /\ output_img'[w] # output_img[w] => Stage(w) = "compute"
          /\ Stage(w) \in ExchangeStages => InteriorUnchanged(w)
          /\ Stage(w) = "compute" => local_img'[w] = local_img[w]
          /\ Stage(w) \in {"gather", "gather_barrier"} =>
                 /\ local_img'[w] = local_img[w]
                 /\ output_img'[w] = output_img[w]]_vars

\* 2x2 grid, test image: rank 0 is in its east exchange, has received the
\* first of its two east border cells, and its interior is the image block
C19_Witness ==
    /\ world_size = 4 /\ N = 4 /\ orig_img = TestImage(4)
    /\ run[0] = 0 /\ Stage(0) = "east"
    /\ Cell(0, 1, 3) = 34 /\ Cell(0, 2, 3) = 0
    /\ Cell(0, 1, 1) = 0 /\ Cell(0, 1, 2) = 17

\* C20: a rank that is in a column-axis exchange (west or east) has no
\* row-axis exchange (north or south) left in its iteration: both have
\* completed before the first column-axis exchange is issued.
C20_RowsBeforeColumns ==
    \A w \in Ranks :
        (Running(w) /\ Stage(w) \in {"west", "east"}) =>
            \A k \in pc[w] .. Len(prog[w]) :
                prog[w][k].stage \notin {"north", "south"}

\* 2x3 grid: the middle rank of the bottom row is in its west exchange and
\* its north border already holds data of the rank above
C20_Witness ==
    /\ world_size = 6 /\ N = 4 /\ orig_img = CodeImage(4)
    /\ run[4] = 0 /\ Stage(4) = "west"
    /\ Cell(4, 0, 1) # 0
    /\ \E k \in 1 .. (pc[4] - 1) : prog[4][k].stage = "north"

\* rank w waits for a stopped rank: a half of its current operation that
\* has not completed is addressed to a rank that has stopped
WaitsForStopped(w) ==
    /\ Alive(w) /\ Running(w)
    /\ \/ HasSend(CurOp(w)) /\ "s" \notin half[w] /\ CurOp(w).snd.peer \in stopped
       \/ HasRecv(CurOp(w)) /\ "r" \notin half[w] /\ CurOp(w).rcv.peer \in stopped

\* rank w waits in a barrier
WaitsInBarrier(w) == Alive(w) /\ Running(w) /\ CurOp(w).kind = "barrier"

\* C17: once a rank has stopped inside the run loop, no rank ever leaves the
\* run loop (rank 0 never prints the result line) and none calls
\* MPI_Finalize; a rank waiting for a stopped rank or in a barrier never
\* gets past the operation it waits in.
C17_StoppedWorkerBlocksRun ==
    /\ [](stopped # {} => \A w \in Ranks : Running(w) /\ w \notin finalized)
    /\ [][\A w \in Ranks :
            (stopped # {} /\ (WaitsForStopped(w) \/ WaitsInBarrier(w))) =>
                (pc'[w] = pc[w] /\ run'[w] = run[w])]_vars

\* 2x2 grid, second of two iterations: the last rank has stopped, rank 0
\* waits for its rows in the Collector, and no rank can take a step
C17_Witness ==
    /\ world_size = 4 /\ num_runs = 2
    /\ stopped = {3}
    /\ run[0] = 1 /\ Stage(0) = "gather" /\ WaitsForStopped(0)
    /\ ~CanStep

\* C21: for N = 6 and 6 workers setup_domain yields a 2x3 grid and every
\* worker a tile of exactly 3 rows by 2 columns.
C21_SixBySix ==
    (Resolved /\ world_size = 6 /\ N = 6) =>
        /\ dom.config.grid_rows = 2 /\ dom.config.grid_cols = 3
        /\ dom.config.local_rows = 3 /\ dom.config.local_cols = 2
        /\ \A r \in Ranks :
              PeerConfig(r).local_rows = 3 /\ PeerConfig(r).local_cols = 2

\* the last worker of the 2x3 grid (grid row 1, grid column 2) has resolved
\* its geometry for the 6x6 image
C21_Witness ==
    /\ Resolved /\ world_size = 6 /\ N = 6
    /\ dom.rank = 5
    /\ dom.config.my_row = 1 /\ dom.config.my_col = 2
    /\ dom.config.local_rows * dom.config.grid_rows = N
    /\ dom.config.local_cols * dom.config.grid_cols = N

\* C22: for N = 10 and 3 workers setup_domain yields a 1x3 grid, local_rows
\* is 10 for every worker and local_cols is 3, 3 and 4 in rank order.
C22_TenByThree ==
    (Resolved /\ world_size = 3 /\ N = 10) =>
        /\ dom.config.grid_rows = 1 /\ dom.config.grid_cols = 3
        /\ dom.config.local_rows = 10
        /\ dom.config.local_cols = (IF dom.rank = 2 THEN 4 ELSE 3)
        /\ [r \in Ranks |-> PeerConfig(r).local_cols] = (0 :> 3 @@ 1 :> 3 @@ 2 :> 4)

\* the last of the three workers has resolved its geometry and absorbed the
\* remainder column
C22_Witness ==
    /\ Resolved /\ world_size = 3 /\ N = 10
    /\ dom.rank = 2 /\ dom.config.my_col = 2
    /\ dom.config.local_cols = 4

\* the keys of a result line
ReportKeys(line) == {line[k][1] : k \in DOMAIN line}

\* C23: once rank 0 has finished, its result line carries the minimum, the
\* mean and the maximum per-iteration time (the MIN, AVG_TIME and MAX
\* tokens) and a fourth time statistic, the mean exchange time.
C23_ReportStatistics ==
    0 \in finalized =>
        \E k \in DOMAIN report :
            LET keys == ReportKeys(report[k])
            IN  /\ {"MIN", "AVG_TIME", "MAX"} \subseteq keys
                /\ Cardinality(keys \ {"RANKS", "SIZE", "RUNS"}) >= 4

\* rank w exchanges halo data with at least one neighbor
HasNeighbors(w) == ExchangeOps(config[w]) # << >>

\* C24: the halo exchange is overlapped with computation: a rank computes
\* the pixels that need no halo while its halo transfers are in flight, so
\* when all its transfers have completed and the remaining (boundary)
\* computation is due, a computation step of this iteration lies behind it.
C24_ExchangeOverlapsCompute ==
    \A w \in Ranks :
        (Running(w) /\ HasNeighbors(w) /\ Stage(w) = "compute") =>
            \E k \in 1 .. (pc[w] - 1) : prog[w][k].kind = "compute"

\* some rank of the latency benchmark can take a step
LatCanStep ==
    \/ \E w \in Ranks : lat[w].pc \in {"start", "end"}
    \/ \A w \in Ranks : LatInBarrier(w)
    \/ \E s \in Ranks, d \in Ranks : LatMatches(s, d)
    \/ lat[0].pc = "print"

\* C25: for every world size >= 2 the latency benchmark runs to completion:
\* as long as some rank has not reached MPI_Finalize some rank can take a
\* step, so no rank stays blocked in a barrier.
C25_LatencyCompletes ==
    (world_size >= 2 /\ finalized # Ranks) => LatCanStep

\* the round trips the benchmark is to make for each of the seven sizes
PrescribedTrips == <<10000, 10000, 10000, 1000, 1000, 100, 100>>

\* ranks 0 and 1 are both inside the ping-pong loop of measure_pair
InPingPong == lat[0].pc \in {"send", "recv"} /\ lat[1].pc \in {"send", "recv"}

\* C26: with two ranks the result lines are printed for the sizes 1, 10,
\* ..., 1000000 in this order, one per size; a rank that has left
\* measure_pair for a size has made exactly the prescribed number of round
\* trips; inside the ping-pong the two ranks are in the same round trip and
\* one of them sends while the other receives; some rank can always take a
\* step until both have finalized, and then exactly seven lines are printed.
C26_PingPong ==
    world_size = 2 =>
        /\ Len(report) <= Len(LatSizes)
        /\ \A k \in DOMAIN report : report[k][1] = LatSizes[k]
        /\ \A w \in Ranks :
              lat[w].pc \in {"barrier", "print"} =>
                  lat[w].i = PrescribedTrips[lat[w].k]
        /\ \A w \in Ranks :
              lat[w].pc \in {"send", "recv"} => lat[w].i < PrescribedTrips[lat[w].k]
        /\ InPingPong =>
              /\ lat[0].k = lat[1].k /\ lat[0].i = lat[1].i
              /\ lat[0].pc # lat[1].pc
        /\ Len(report) = (IF lat[0].pc \in {"end", "done"} THEN 7
                           ELSE lat[0].k - 1)
        /\ finalized # Ranks => LatCanStep
        /\ finalized = Ranks => Len(report) = 7

\* both ranks have finalized after the seventh result line
C26_Witness ==
    /\ world_size = 2 /\ finalized = Ranks
    /\ Len(report) = 7 /\ report[7][1] = 1000000
    /\ lat[1].pc = "done"

\* the cells some thread has stored into
OmpWritten == {x \in DOMAIN omp.writers : omp.writers[x] # {}}

\* C27: for every image, side and thread count and every interleaving of the
\* threads, no output cell is ever written by two threads, every cell
\* written so far holds the value run_sobel_seq stores there, the input
\* image never changes, and after the loop the output array equals the one
\* run_sobel_seq produces from the same input.
C27_OmpEqualsSeq ==
    /\ [](LET seq == run_sobel_seq(omp.img, OmpZeroOut(omp.n), omp.n)
          IN  /\ \A x \in DOMAIN omp.writers : Cardinality(omp.writers[x]) <= 1
              /\ \A x \in OmpWritten : omp.out[x] = seq[x]
              /\ omp.pc = "done" => omp.out = seq)
    /\ [][omp'.img = omp.img]_vars

\* three threads have each written a cell of a 4x4 image, the loop is over and
\* the output is not the initial one
C27_Witness ==
    /\ omp.pc = "done" /\ omp.n = 4 /\ omp.threads = 3
    /\ \A t \in 1 .. 3 : \E x \in OmpWritten : omp.writers[x] = {t}
    /\ omp.out # OmpZeroOut(4)

\* indices of the four corner cells of a padded tile
CornerCells(cfg) ==
    LET last_row == (cfg.local_rows + 2 * cfg.halo_size - 1) * Pitch(cfg)
    IN  {0, Pitch(cfg) - 1, last_row, last_row + Pitch(cfg) - 1}

\* rank w is blocked in a receive into its tile that stores into cell x
ReceivesInto(w, x) ==
    /\ Running(w) /\ HasRecv(CurOp(w)) /\ CurOp(w).rcv.buf = "local"
    /\ x >= CurOp(w).rcv.off /\ x < CurOp(w).rcv.off + CurOp(w).rcv.cnt

\* C28: in every reachable state the four corner cells of every rank's padded
\* tile hold zero, and no receive a rank posts into its tile (scatter rows,
\* halo rows, halo cells) covers a corner cell; this holds for ranks with a
\* diagonal neighbor too.
C28_CornersStayZero ==
    \A w \in Ranks :
        \A x \in CornerCells(config[w]) :
            /\ local_img[w][x] = 0
            /\ ~ReceivesInto(w, x)

\* 2x2 grid, test image: rank 0 has finished its exchange, its south and east
\* border cells next to the corner are filled, the corner is zero although
\* the diagonal neighbor (rank 3) holds pixel (2,2) = 96 there
C28_Witness ==
    /\ world_size = 4 /\ N = 4 /\ orig_img = TestImage(4)
    /\ ExchangeDone(0) /\ ExchangeDone(3)
    /\ Cell(0, 3, 3) = 0
    /\ Cell(3, 1, 1) = 96
    /\ Cell(0, 3, 2) # 0 /\ Cell(0, 2, 3) # 0

\* the stage whose receive takes the message a send of stage st is meant for
PairedStage(st) ==
    CASE st = "north" -> "south"
      [] st = "south" -> "north"
      [] st = "west"  -> "east"
      [] st = "east"  -> "west"
      [] OTHER        -> st

\* the image row a transferred row or cell belongs to, seen from rank w for
\* the part of an operation: a row of global_img, of the rank's output
\* block, or of the interior of its padded tile
ImageRow(w, part) ==
    LET reg == ScatterRegion(config[0], N, w)
        h   == config[w].halo_size
    IN  IF part.buf = "global" THEN part.off \div N
        ELSE IF part.buf = "output"
             THEN reg.start_row + (IF config[w].local_cols = 0 THEN 0
                                   ELSE part.off \div config[w].local_cols)
        ELSE reg.start_row + (part.off \div Pitch(config[w])) - h

\* C29: whenever a message can be delivered, the sender and the receiver are
\* in the same iteration and in paired stages (scatter with scatter, gather
\* with gather, north with south, west with east), the element counts of the
\* two sides agree, and in a scatter, gather, west or east transfer both
\* sides mean the same image row; ranks of one grid row have equal
\* local_rows and ranks of one grid column equal local_cols.  In particular
\* a gather row sent to rank 0 is never taken by a halo receive of rank 0.
C29_ReceivesMatchTheirSends ==
    /\ \A s \in Ranks, d \in Ranks :
          Matches(s, d) =>
              LET so == CurOp(s)
                  ro == CurOp(d)
              IN  /\ run[s] = run[d]
                  /\ ro.stage = PairedStage(so.stage)
                  /\ so.snd.cnt = ro.rcv.cnt
                  /\ so.stage \in {"scatter", "gather", "west", "east"} =>
                        (so.snd.cnt > 0 => ImageRow(s, so.snd) = ImageRow(d, ro.rcv))
                  /\ so.stage = "gather" => d = 0
                  /\ so.stage = "scatter" => s = 0
    /\ \A a \in Ranks, b \in Ranks :
          /\ config[a].my_row = config[b].my_row =>
                 config[a].local_rows = config[b].local_rows
          /\ config[a].my_col = config[b].my_col =>
                 config[a].local_cols = config[b].local_cols

\* 2x2 grid: rank 2 (south neighbor of rank 0) is about to send its first
\* gather row to rank 0 with tag 0, and rank 0 is ready to receive it in its
\* gather loop, after both passed through the tag-0 halo exchange
C29_Witness ==
    /\ world_size = 4 /\ N = 4
    /\ Matches(2, 0)
    /\ CurOp(2).stage = "gather" /\ CurOp(2).snd.tag = 0
    /\ CurOp(0).stage = "gather" /\ CurOp(0).rcv.tag = 0
    /\ South(config[0]) = 2

\* C30: for the resolved caller A and every rank B of the launch: B is A's
\* east neighbor exactly when A is B's west neighbor, and the same for west
\* and east, south and north, north and south; every neighbor that is not
\* MPI_PROC_NULL is a rank of the launch, lies in the same grid row (east,
\* west) or grid column (north, south) and one position away; a neighbor is
\* MPI_PROC_NULL exactly when A lies on that edge of the grid.
C30_NeighborsSymmetric ==
    Resolved =>
        LET a    == dom.config
            rows == a.grid_rows
            cols == a.grid_cols
            row  == a.rank \div cols
            col  == a.rank % cols
        IN  /\ \A b \in Ranks :
                  /\ (East(a) = b)  <=> (West(PeerConfig(b)) = a.rank)
                  /\ (West(a) = b)  <=> (East(PeerConfig(b)) = a.rank)
                  /\ (South(a) = b) <=> (North(PeerConfig(b)) = a.rank)
                  /\ (North(a) = b) <=> (South(PeerConfig(b)) = a.rank)
            /\ \A nb \in {North(a), South(a), West(a), East(a)} :
                  nb # MPI_PROC_NULL => nb \in Ranks
            /\ East(a) # MPI_PROC_NULL =>
                  /\ PeerConfig(East(a)).my_row = row
                  /\ PeerConfig(East(a)).my_col = col + 1
            /\ West(a) # MPI_PROC_NULL =>
                  /\ PeerConfig(West(a)).my_row = row
                  /\ PeerConfig(West(a)).my_col = col - 1
            /\ South(a) # MPI_PROC_NULL =>
                  /\ PeerConfig(South(a)).my_col = col
                  /\ PeerConfig(South(a)).my_row = row + 1
            /\ North(a) # MPI_PROC_NULL =>
                  /\ PeerConfig(North(a)).my_col = col
                  /\ PeerConfig(North(a)).my_row = row - 1
            /\ (North(a) = MPI_PROC_NULL) <=> (row = 0)
            /\ (South(a) = MPI_PROC_NULL) <=> (row = rows - 1)
            /\ (West(a) = MPI_PROC_NULL)  <=> (col = 0)
            /\ (East(a) = MPI_PROC_NULL)  <=> (col = cols - 1)

\* rank 5 of a 3x4 grid has four neighbors; rank 7 on the same grid row is
\* on the east edge
C30_Witness ==
    /\ Resolved /\ world_size = 12 /\ dom.rank = 5
    /\ dom.config.grid_rows = 3 /\ dom.config.grid_cols = 4
    /\ North(dom.config) = 1 /\ South(dom.config) = 9
    /\ West(dom.config) = 4 /\ East(dom.config) = 6
    /\ East(PeerConfig(7)) = MPI_PROC_NULL

\* the image a single worker holds in the interior of its tile
TileImage(w) ==
    LET h == config[w].halo_size
    IN  [x \in 0 .. (N * N - 1) |-> Cell(w, (x \div N) + h, (x % N) + h)]

\* C31: with a single worker, after the kernel every output cell with row and
\* column in 1 .. N-2 equals the cell run_sobel_seq computes from the image
\* the worker holds in its tile.
C31_SingleWorkerEqualsSeq ==
    (world_size = 1 /\ KernelDone(0)) =>
        LET seq == run_sobel_seq(TileImage(0), OmpZeroOut(N), N)
        IN  \A i \in 1 .. (N - 2), j \in 1 .. (N - 2) :
                output_img[0][i * N + j] = seq[i * N + j]

\* single worker, 4x4 test image, first iteration: the four interior output
\* cells are those of the reference (pixel (1,1) is clamped to 255), while the frame
\* cell (0,1), which the reference leaves at 0, is not
C31_Witness ==
    /\ world_size = 1 /\ N = 4 /\ orig_img = TestImage(4)
    /\ run[0] = 0 /\ KernelDone(0)
    /\ TileImage(0) = make_test_image(4)
    /\ output_img[0][5] = run_sobel_seq(make_test_image(4), OmpZeroOut(4), 4)[5]
    /\ output_img[0][5] > 0
    /\ output_img[0][1] # run_sobel_seq(make_test_image(4), OmpZeroOut(4), 4)[1]

\* C32: every cell of every rank's output tile is an integer in 0 .. 255, and
\* from the end of rank 0's first gather on so is every cell of rank 0's
\* global_img.
C32_OutputInRange ==
    /\ \A w \in Ranks :
          \A x \in DOMAIN output_img[w] : output_img[w][x] \in 0 .. 255
    /\ (run[0] > 0 \/ Collected) =>
          \A x \in DOMAIN global_img : global_img[x] \in 0 .. 255

\* single worker, 4x4 test image: at pixel (1,1) Gx = 136 and Gy = 248, the
\* magnitude 282 exceeds 255, and the cell collected into global_img is 255
C32_Witness ==
    /\ world_size = 1 /\ N = 4 /\ orig_img = TestImage(4)
    /\ run[0] = 0 /\ Stage(0) = "gather_barrier"
    /\ SobelGx(0, 2, 2) = 136 /\ SobelGy(0, 2, 2) = 248
    /\ ISqrt(SquaredMagnitude(0, 2, 2)) = 282
    /\ output_img[0][5] = 255 /\ global_img[5] = 255

\* the buffer of rank w an operation names
Buffer(w, buf) ==
    IF buf = "global" THEN global_img
    ELSE IF buf = "output" THEN output_img[w]
    ELSE local_img[w]

\* the subscripts one half of a message operation evaluates on its buffer:
\* the one of the start address &buf[off] handed to MPI, and those of the
\* cnt elements transferred from there
PartSubscripts(part) ==
    {<<part.buf, part.off>>} \cup {<<part.buf, part.off + k>> : k \in 0 .. (part.cnt - 1)}

\* the subscripts rank 0 evaluates in the copy loop of scatter_image
ScatterCopySubscripts(cfg, n) ==
    LET reg == ScatterRegion(cfg, n, 0)
        h   == cfg.halo_size
    IN  UNION {{<<"local", (i + h) * (reg.cols + 2 * h) + (j + h)>>,
                <<"global", (reg.start_row + i) * n + reg.start_col + j>>} :
               i \in 0 .. (reg.rows - 1), j \in 0 .. (reg.cols - 1)}

\* the subscripts compute_sobel_local evaluates
ComputeSubscripts(cfg) ==
    LET h     == cfg.halo_size
        cols  == cfg.local_cols
        pitch == cols + 2 * h
    IN  UNION {{<<"output", (i - h) * cols + (j - h)>>}
               \cup {<<"local", (i + di) * pitch + (j + dj)>> :
                        di \in -1 .. 1, dj \in -1 .. 1} :
               i \in h .. (cfg.local_rows + h - 1), j \in h .. (cols + h - 1)}

\* the subscripts rank 0 evaluates in the copy loop of gather_image
GatherCopySubscripts(cfg, n) ==
    LET reg == GatherRegion(cfg, n, 0)
    IN  UNION {{<<"output", i * reg.cols + j>>,
                <<"global", (reg.start_row + i) * n + reg.start_col + j>>} :
               i \in 0 .. (reg.rows - 1), j \in 0 .. (reg.cols - 1)}

\* every <<buffer, index>> the operation op of a rank with geometry cfg
\* subscripts
Subscripts(cfg, n, op) ==
    IF op.kind = "scatter_copy" THEN ScatterCopySubscripts(cfg, n)
    ELSE IF op.kind = "compute" THEN ComputeSubscripts(cfg)
    ELSE IF op.kind = "gather_copy" THEN GatherCopySubscripts(cfg, n)
    ELSE (IF HasSend(op) THEN PartSubscripts(op.snd) ELSE {})
         \cup (IF HasRecv(op) THEN PartSubscripts(op.rcv) ELSE {})

\* C33: for every worker count and image size every index with which the
\* operation a rank is executing (in scatter, exchange, kernel or gather)
\* subscripts its padded tile, its output tile or global_img lies inside
\* that buffer.
C33_IndicesInBounds ==
    \A w \in Ranks :
        Running(w) =>
            \A a \in Subscripts(config[w], N, CurOp(w)) :
                a[2] \in DOMAIN Buffer(w, a[1])

\* the program printed a MODE=... result line
PrintedResult == \E k \in DOMAIN omp.stdout : omp.stdout[k] = "MODE"

\* the command line names a mode and N < 3, threads < 1 or the mode is unknown
BadArguments ==
    /\ omp.args.argc >= 2
    /\ \/ omp.args.N < 3
       \/ omp.args.threads < 1
       \/ omp.args.mode \notin {"seq", "omp"}

\* C34: for N < 3, for threads < 1 and for a mode other than 'seq' and 'omp',
\* whatever num_runs is, the program never prints a MODE=... line and when it
\* has ended its exit status is 1.
C34_BadArgumentsRejected ==
    BadArguments =>
        /\ ~PrintedResult
        /\ omp.pc = "exit" => omp.status = 1

\* the image sizes the README lists for the weak-scaling runs
ReadmeWeakSize(procs) ==
    CASE procs = 1 -> 512
      [] procs = 2 -> 724
      [] procs = 4 -> 1024
      [] procs = 8 -> 1448

\* C35: every row the weak-scaling benchmark writes for p processes has the
\* image size the README lists for p (512, 724, 1024, 1448), which is the
\* side of a square image with p times the pixels of the 512x512 one.
C35_WeakWorkPerRankConstant ==
    \A k \in DOMAIN script.csv :
        k > 1 =>
            LET row == script.csv[k]
            IN  /\ row.image_size = ReadmeWeakSize(row.procs)
                /\ row.image_size = ISqrt(row.procs * 512 * 512)

\* the step is a run of inject_failure.sh
InjectionStep == script'.last.type \in FailureTypes /\ script'.last # script.last

\* C36: a run of the failure-injection script sends a signal only if the
\* target's PID file exists and the recorded process is alive, and then it
\* is KILL for crash, STOP for freeze and CONT for resume, sent to the target
\* alone; if the PID file is missing or the process is not alive, or the
\* type is unknown, the run ends with status 1 and no server's process
\* changes; in particular freeze and resume fail on a crashed server, and a
\* frozen server runs again only in a step that is a resume of that server.
C36_InjectionGuarded ==
    [][/\ InjectionStep =>
            LET l      == script'.last
                before == script.servers[l.target]
                usable == before.pidfile /\ before.proc \in {"running", "stopped"}
            IN  /\ l.signal # "none" =>
                      /\ usable
                      /\ l.signal = SignalOf(l.type)
                      /\ l.type \in {"crash", "freeze", "resume"}
                /\ (l.type \in {"crash", "freeze", "resume"} /\ ~usable) =>
                      (l.status = 1 /\ l.signal = "none")
                /\ l.type \notin {"crash", "freeze", "resume", "delay"} =>
                      (l.status = 1 /\ l.signal = "none")
                /\ l.signal = "none" => script'.servers = script.servers
                /\ \A i \in ServerIds \ {l.target} :
                      script'.servers[i] = script.servers[i]
                /\ (before.proc = "dead" /\ l.type \in {"freeze", "resume"}) =>
                      l.status = 1
       /\ \A i \in ServerIds :
            (script.servers[i].proc = "stopped" /\ script'.servers[i].proc = "running") =>
                /\ script'.last.type = "resume" /\ script'.last.target = i
                /\ script'.last.signal = "CONT" /\ script'.last.status = 0
      ]_vars

\* server-0 was crashed and a resume of it has just failed, while server-1,
\* frozen earlier, is still stopped
C36_Witness ==
    /\ script.servers[0].proc = "dead" /\ script.servers[0].pidfile
    /\ script.servers[1].proc = "stopped"
    /\ script.last = [type |-> "resume", target |-> 0, status |-> 1, signal |-> "none"]

====
